---- MODULE Spec2Model ----
(***************************************************************************)
(* A model of the translation pipeline of sjchem/texra: the chunkers       *)
(* (app/services/chunker.py), the structure-preserving collect/apply of    *)
(* the DOCX and PPTX services, the concurrent dispatch of translation jobs *)
(* and the validate-and-retry step of the orchestrator.                    *)
(*                                                                         *)
(* Texts are sequences of characters over a small alphabet.  LF stands for *)
(* "\n" and SP for " ".                                                    *)
(***************************************************************************)
EXTENDS Integers, Sequences, FiniteSets, TLC

VARIABLES
    \* ---- chunkers ----
    cpc,            \* "input" | "smart" | "legacy": which chunker has run
    text,           \* the text handed to the chunker
    maxChars,       \* SmartChunker.max_chars / chunk_text's max_chars
    overlapChars,   \* SmartChunker.overlap_chars
    smartChunks,    \* result of SmartChunker.chunk_text (chunk dicts)
    legacyChunks,   \* result of the legacy chunk_text (strings)
    \* ---- structure-preserving translation of a document tree ----
    tpc,            \* "input" | "collected" | "mapped" | "applied" | "applied_empty"
    docKind,        \* "docx" | "pptx"
    doc,            \* document_data (DOCX) or slides_data (PPTX)
    items,          \* the collected (text, metadata) items, in collection order
    tmap,           \* translations_map: key -> translated text
    outDoc,         \* the tree returned by the service
    \* ---- one translation request of the orchestrator ----
    rpc,            \* "idle" | "translating" | "validating" | "writing" |
                    \* "docvalidate" | "docvalidating" | "done" | "failed"
    workflow,       \* "standard" | "large" | "docx" | "pptx" | "pdf"
    validation,     \* enable_validation
    units,          \* the units to translate (chunks, leaves, pages), in order
    overlap,        \* per unit: has_overlap of the chunk (large documents)
    limit,          \* max_concurrency of the orchestrator
    capacity,       \* initial value of the semaphore the jobs go through
    semValue,       \* _value of that semaphore
    globalValue,    \* _value of _TRANSLATION_SEMAPHORE
    lockHeld,       \* _progress_lock is held
    completed,      \* _completed_chunks
    jpc,            \* per job: "new" | "queued" | "call" | "lockwait" |
                    \* "callback" | "done" | "raised"
    fate,           \* per job: what the primitive did ("none" before it ends)
    taskResult,     \* per job: the translated text the job holds or returned
    results,        \* the list gather returned (<<>> before it returns)
    log,            \* the values passed to progress_callback, in order
    failures,       \* number of calls to the model that failed so far
    sample,         \* sample_indices of the validation phase, as a set
    vpc,            \* per unit: "off" | "validate1" | "retrywait" |
                    \* "retrycall" | "validate2" | "done" | "raised"
    vReport,        \* per unit: local result of _validate_and_retry_chunk
    retries,        \* per unit: re-translations issued by validation
    validationResults,  \* self.validation_results
    docLeft,        \* _validate_document: chunks still to validate
    docReports,     \* _validate_document: local validation_results
    output,         \* what the writer wrote (<<>> before)
    \* ---- the admission gate of one dispatcher, jobs counted by position ----
    apc,            \* "translating" | "validating" | "done"
    aLimit,         \* max_concurrency
    aSem,           \* _value of self.semaphore
    aGlobal,        \* _value of _TRANSLATION_SEMAPHORE
    aLock,          \* _progress_lock is held by a job of the gate machine
    tjobs,          \* translation jobs: how many wait, are admitted, run, ended
    rjobs,          \* validation tasks: how many validate, wait, ..., ended
    \* ---- the choice of the units to validate ----
    spc,            \* "input" | "drawn" | "skipped" | "done"
    sampler,        \* "standard" | "large_document": which code samples
    sUnits,         \* total_chunks / num_chunks
    sSize,          \* the requested sample size
    sIndices,       \* sample_indices, 0-based, in the order drawn
    sValidated,     \* the indices handed to the validator so far, in order
    \* ---- the choice of the workflow ----
    fpc,            \* "input" | "standard_entry" | "routed" | "failed"
    filePath,       \* file_path, by its extension
    fileLen,        \* the number of characters of the file's text
    chosen,         \* the workflow that translates the file ("none" before)
    \* ---- the summaries of a list of validation reports ----
    mpc,            \* "reports" when summaries are made of qScores
    qScores,        \* the quality_score of the reports, in order
    orchSummary,    \* result of get_validation_summary
    docSummary,     \* result of validate_large_document
    \* ---- several dispatchers of one process ----
    dLimit,         \* per dispatcher: its max_concurrency
    dSem,           \* per dispatcher: _value of its semaphore
    dJobs,          \* per dispatcher: how many jobs wait, are admitted, run, ended
    gSem            \* _value of _TRANSLATION_SEMAPHORE, which they share

chunkVars == <<cpc, text, maxChars, overlapChars, smartChunks, legacyChunks>>
treeVars == <<tpc, docKind, doc, items, tmap, outDoc>>

jobVars == <<jpc, fate, taskResult, failures>>
gateVars == <<capacity, semValue, globalValue, lockHeld, completed>>
valVars == <<sample, vpc, vReport, retries, validationResults, docLeft,
            docReports>>
reqVars == <<rpc, workflow, validation, units, overlap, limit, results, log, output,
             jobVars, gateVars, valVars>>

admVars == <<apc, aLimit, aSem, aGlobal, aLock, tjobs, rjobs>>

smpVars == <<spc, sampler, sUnits, sSize, sIndices, sValidated>>

rteVars == <<fpc, filePath, fileLen, chosen>>
sumVars == <<mpc, qScores, orchSummary, docSummary>>
shrVars == <<dLimit, dSem, dJobs, gSem>>

vars == <<chunkVars, treeVars, reqVars, admVars, smpVars, rteVars, sumVars,
          shrVars>>

-----------------------------------------------------------------------------
(* Bounds of the model.                                                    *)

MaxTextLen == 5
MaxChunkChars == 4
MaxOverlapChars == 3
MaxElems == 2
MaxShapes == 3
MaxUnits == 2        \* units of one request
MaxLargeUnits == 4   \* chunks of one large document
MaxLimit == 2        \* max_concurrency of the orchestrator
MaxFailures == 1     \* calls to the model that fail in one request
MaxDocChunks == 1    \* chunks _validate_document finds in the written file
MaxCarried == 1      \* _completed_chunks when a later request begins
MaxGateJobs == 21    \* jobs handed to one dispatcher
MaxFairJobs == 9     \* jobs handed to one dispatcher, where termination is checked
MaxSharedJobs == 6   \* jobs handed to each of several dispatchers
MaxDelta == 2        \* file lengths this far from 0 and from the threshold
MaxReports == 4      \* reports one summary is made of
MaxSampleUnits == 6  \* units a sample is drawn from
MaxSampleSize == 5   \* sample_size asked of validate_large_document

(* Constants of the program.                                               *)

GlobalLimit == 5          \* _TRANSLATION_SEMAPHORE
DefaultConcurrency == 5   \* LargeDocumentTranslator(max_concurrency=5)
SampleSize == 5           \* k = min(5, total_chunks)
RetryThreshold == 60      \* quality_score < 60
BatchSize == 3            \* batch_size of _translate_with_context
HintChars == 200          \* previous_translation[-200:]
LARGE_DOC_THRESHOLD == 40000

-----------------------------------------------------------------------------
(* Characters and texts.                                                   *)

LF == "LF"
SP == "SP"
Alphabet == {"a", ".", SP, LF}

\* Python's \s and str.strip() whitespace, restricted to the alphabet.
IsSpace(c) == c \in {SP, LF}

\* The character class [.!?] of the sentence regular expressions.
IsPunct(c) == c \in {".", "!", "?"}

RECURSIVE TextsOfLen(_)
TextsOfLen(n) ==
    IF n = 0 THEN {<<>>}
    ELSE {Append(t, c) : t \in TextsOfLen(n - 1), c \in Alphabet}

Texts == UNION {TextsOfLen(n) : n \in 0..MaxTextLen}

RECURSIVE Concat(_)
Concat(ss) == IF ss = <<>> THEN <<>> ELSE Head(ss) \o Concat(Tail(ss))

StartsWith(s, p) == Len(p) <= Len(s) /\ SubSeq(s, 1, Len(p)) = p

\* s[k:] of Python, k counted from 0.
Drop(s, k) == SubSeq(s, k + 1, Len(s))

\* str.strip(): s without its leading and trailing whitespace.
Strip(s) ==
    LET idx == {i \in 1..Len(s) : ~IsSpace(s[i])}
    IN  IF idx = {} THEN <<>>
        ELSE SubSeq(s, CHOOSE i \in idx : \A j \in idx : i <= j,
                       CHOOSE i \in idx : \A j \in idx : j <= i)

\* Membership in a character class of the regular expressions: "space" is
\* \s, "punct" is [.!?].
InClass(c, cls) == IF cls = "space" THEN IsSpace(c) ELSE IsPunct(c)

\* The last index of the maximal run of characters of class cls that starts
\* at p (p - 1 when s[p] is not of that class).
RunEnd(s, p, cls) ==
    LET stops == {i \in p..Len(s) : ~InClass(s[i], cls)}
    IN  IF stops = {} THEN Len(s)
        ELSE (CHOOSE i \in stops : \A j \in stops : i <= j) - 1

\* re: \n\s*\n matched at position p; the index of its last character, 0
\* when it does not match there.  \s* is greedy, so the match ends at the
\* last "\n" of the whitespace run that starts at p.
SectionSepEnd(s, p) ==
    IF s[p] # LF THEN 0
    ELSE LET r == RunEnd(s, p, "space")
             lfs == {i \in (p + 1)..r : s[i] = LF}
         IN  IF lfs = {} THEN 0
             ELSE CHOOSE i \in lfs : \A j \in lfs : j <= i

\* re: [.!?]+\s+ matched at position p; the index of its last character, 0
\* when it does not match there.
SentenceSepEnd(s, p) ==
    IF ~IsPunct(s[p]) THEN 0
    ELSE LET pe == RunEnd(s, p, "punct")
         IN  IF pe + 1 <= Len(s) /\ IsSpace(s[pe + 1])
             THEN RunEnd(s, pe + 1, "space")
             ELSE 0

\* re.split(r'(<re>)', s): the pieces and the separators, alternating,
\* scanning from pos with the current piece starting at start; re names the
\* regular expression, "section" for \n\s*\n and "sentence" for [.!?]+\s+.
SepEnd(s, p, re) ==
    IF re = "section" THEN SectionSepEnd(s, p) ELSE SentenceSepEnd(s, p)

RECURSIVE ReSplit(_, _, _, _)
ReSplit(s, pos, start, re) ==
    IF pos > Len(s) THEN <<SubSeq(s, start, Len(s))>>
    ELSE LET q == SepEnd(s, pos, re)
         IN  IF q = 0 THEN ReSplit(s, pos + 1, start, re)
             ELSE <<SubSeq(s, start, pos - 1), SubSeq(s, pos, q)>>
                      \o ReSplit(s, q + 1, q + 1, re)

\* for i in range(0, len(parts), 2): parts[i] + (parts[i+1] or '')
RECURSIVE Recombine(_)
Recombine(parts) ==
    IF parts = <<>> THEN <<>>
    ELSE IF Len(parts) = 1 THEN <<parts[1]>>
    ELSE <<parts[1] \o parts[2]>> \o Recombine(Tail(Tail(parts)))

SelectNonBlank(ss) == SelectSeq(ss, LAMBDA x : Strip(x) # <<>>)

-----------------------------------------------------------------------------
(* SmartChunker (overlap-aware mode).                                      *)

_split_by_sections(t) ==
    SelectNonBlank(Recombine(ReSplit(t, 1, 1, "section")))

\* The packing loop of _split_large_section over the recombined sentences.
RECURSIVE PackSentences(_, _, _, _)
PackSentences(sents, i, current, mx) ==
    IF i > Len(sents)
    THEN IF current # <<>> THEN <<current>> ELSE <<>>
    ELSE IF Len(current) + Len(sents[i]) <= mx
         THEN PackSentences(sents, i + 1, current \o sents[i], mx)
         ELSE (IF current # <<>> THEN <<current>> ELSE <<>>)
                  \o PackSentences(sents, i + 1, sents[i], mx)

_split_large_section(section, mx) ==
    PackSentences(Recombine(ReSplit(section, 1, 1, "sentence")), 1, <<>>, mx)

\* The first position of s at which [.!?]+\s+ matches, 0 when there is none.
FirstSentenceMatch(s) ==
    LET ms == {p \in 1..Len(s) : SentenceSepEnd(s, p) # 0}
    IN  IF ms = {} THEN 0 ELSE CHOOSE p \in ms : \A q \in ms : p <= q

_get_overlap(t, ov) ==
    IF Len(t) <= ov THEN t
    ELSE LET overlap_text == Drop(t, Len(t) - ov)
             m == FirstSentenceMatch(overlap_text)
         IN  IF m # 0 THEN Drop(overlap_text, SentenceSepEnd(overlap_text, m))
             ELSE overlap_text

ChunkDict(t, idx, prev, kind) ==
    [text |-> t, index |-> idx, has_overlap |-> Len(prev) > 0,
     boundary_type |-> kind, previous_context |-> prev]

\* The sub-chunks of one oversized section, each with the overlap of the
\* sub-chunk before it prepended; st is the loop state of chunk_text.
RECURSIVE EmitSubChunks(_, _, _, _)
EmitSubChunks(subs, i, st, ov) ==
    IF i > Len(subs) THEN [st EXCEPT !.current = <<>>]
    ELSE EmitSubChunks(subs, i + 1,
            [st EXCEPT
                !.chunks = Append(@, ChunkDict(st.previous_overlap \o subs[i],
                                               st.chunk_index,
                                               st.previous_overlap, "sentence")),
                !.previous_overlap = _get_overlap(subs[i], ov),
                !.chunk_index = @ + 1],
            ov)

\* One iteration of the loop of SmartChunker.chunk_text.
SectionStep(st, section, mx, ov) ==
    IF Len(st.current) + Len(section) <= mx
    THEN [st EXCEPT !.current = @ \o section]
    ELSE LET closed ==
                 IF st.current # <<>>
                 THEN [st EXCEPT
                          !.chunks = Append(@, ChunkDict(st.current, st.chunk_index,
                                                         st.previous_overlap, "section")),
                          !.previous_overlap = _get_overlap(st.current, ov),
                          !.chunk_index = @ + 1]
                 ELSE st
         IN  IF Len(section) > mx
             THEN EmitSubChunks(_split_large_section(section, mx), 1, closed, ov)
             ELSE [closed EXCEPT !.current = closed.previous_overlap \o section]

RECURSIVE SectionLoop(_, _, _, _, _)
SectionLoop(sections, i, st, mx, ov) ==
    IF i > Len(sections) THEN st
    ELSE SectionLoop(sections, i + 1, SectionStep(st, sections[i], mx, ov), mx, ov)

SmartChunkText(t, mx, ov) ==
    LET st == SectionLoop(_split_by_sections(t), 1,
                          [chunks |-> <<>>, current |-> <<>>,
                           previous_overlap |-> <<>>, chunk_index |-> 0],
                          mx, ov)
    IN  IF st.current # <<>>
        THEN Append(st.chunks, ChunkDict(st.current, st.chunk_index,
                                         st.previous_overlap, "end"))
        ELSE st.chunks

\* The overlap removal of LargeDocumentTranslator before a chunk is sent.
StripOverlap(cd) ==
    IF cd.has_overlap /\ cd.previous_context # <<>>
           /\ StartsWith(cd.text, cd.previous_context)
    THEN Drop(cd.text, Len(cd.previous_context))
    ELSE cd.text

-----------------------------------------------------------------------------
(* The legacy chunker.                                                     *)

\* str.split("\n\n"): the pieces between non-overlapping "\n\n", left to
\* right.
RECURSIVE SplitParas(_, _, _)
SplitParas(s, pos, start) ==
    IF pos + 1 > Len(s) THEN <<SubSeq(s, start, Len(s))>>
    ELSE IF s[pos] = LF /\ s[pos + 1] = LF
         THEN <<SubSeq(s, start, pos - 1)>> \o SplitParas(s, pos + 2, pos + 2)
         ELSE SplitParas(s, pos + 1, start)

RECURSIVE LegacyLoop(_, _, _, _)
LegacyLoop(paras, i, current, mx) ==
    IF i > Len(paras)
    THEN IF current # <<>> THEN <<current>> ELSE <<>>
    ELSE IF Len(current) + Len(paras[i]) < mx
         THEN LegacyLoop(paras, i + 1, current \o paras[i] \o <<LF, LF>>, mx)
         ELSE (IF current # <<>> THEN <<current>> ELSE <<>>)
                  \o LegacyLoop(paras, i + 1, paras[i] \o <<LF, LF>>, mx)

LegacyChunkText(t, mx) == LegacyLoop(SplitParas(t, 1, 1), 1, <<>>, mx)

-----------------------------------------------------------------------------
(* Document trees: DOCX document_data and PPTX slides_data as the loaders  *)
(* build them.                                                             *)

\* Run texts: a plain text, a text with leading whitespace, whitespace only.
R_plain == <<"a">>
R_padded == <<SP, "b">>
R_blank == <<SP>>

Run(t) == [text |-> t]

JoinRuns(runs) == Concat([i \in 1..Len(runs) |-> runs[i].text])

\* '\n'.join(texts)
RECURSIVE JoinLines(_)
JoinLines(ts) ==
    IF ts = <<>> THEN <<>>
    ELSE IF Len(ts) = 1 THEN ts[1]
    ELSE ts[1] \o <<LF>> \o JoinLines(Tail(ts))

\* A paragraph keeps the library's paragraph text, which may hold text that
\* is in no run (extra: a hyperlink, a field).
Para(runs, extra) ==
    [type |-> "paragraph", text |-> JoinRuns(runs) \o extra, runs |-> runs]

DocxParagraphs ==
    {Para(<<Run(R_plain)>>, <<>>),
     Para(<<Run(R_padded), Run(R_blank), Run(R_plain)>>, <<>>),
     Para(<<>>, <<"h">>),
     Para(<<Run(R_plain), Run(R_plain)>>, <<"h">>)}

DocxCell(paras) ==
    [paragraphs |-> paras,
     text |-> JoinLines([i \in 1..Len(paras) |-> paras[i].text])]

\* A cell that holds blank paragraphs only: the loader keeps none of them
\* and keeps the cell's own text.
DocxBlankCell == [paragraphs |-> <<>>, text |-> <<SP>>]

DocxCells ==
    {DocxCell(<<>>),
     DocxBlankCell,
     DocxCell(<<Para(<<Run(R_plain)>>, <<>>)>>),
     DocxCell(<<Para(<<Run(R_padded), Run(R_blank)>>, <<>>),
                Para(<<Run(R_plain)>>, <<>>)>>)}

DocxTable(rows) ==
    [type |-> "table", rows |-> rows, num_rows |-> Len(rows),
     num_cols |-> IF rows = <<>> THEN 0 ELSE Len(rows[1])]

DocxTables ==
    {DocxTable(<<<<c>>>>) : c \in DocxCells}
    \cup {DocxTable(<<<<c1, c2>>>>) : c1 \in DocxCells, c2 \in DocxCells}
    \cup {DocxTable(<<<<c1, DocxCell(<<>>)>>,
                      <<DocxCell(<<Para(<<Run(R_plain)>>, <<>>)>>), c4>>>>) :
             c1 \in {DocxCell(<<>>), DocxCell(<<Para(<<Run(R_plain)>>, <<>>)>>)},
             c4 \in {DocxCell(<<>>), DocxCell(<<Para(<<Run(R_plain)>>, <<>>)>>)}}

DocxElements == DocxParagraphs \cup DocxTables

RECURSIVE SeqsUpTo(_, _)
SeqsUpTo(S, n) ==
    IF n = 0 THEN {<<>>}
    ELSE SeqsUpTo(S, n - 1)
         \cup {Append(q, x) : q \in {r \in SeqsUpTo(S, n - 1) : Len(r) = n - 1},
                              x \in S}

DocxDocs ==
    {[elements |-> es, has_images |-> FALSE] : es \in SeqsUpTo(DocxElements, MaxElems)}

\* PPTX: a paragraph of a text frame; its text may hold what is in no run
\* (a line break, a field).
PptxPara(runs, extra) == [text |-> JoinRuns(runs) \o extra, runs |-> runs]

PptxCellOf(t) == [text |-> t, has_text_frame |-> TRUE]

PptxTableData(rows) ==
    [rows |-> rows, num_rows |-> Len(rows),
     num_cols |-> IF rows = <<>> THEN 0 ELSE Len(rows[1])]

\* The shapes that hold no other shape, at shape index i.
PptxLeafShapes(i) ==
    {[type |-> "text", shape_index |-> i,
      paragraphs |-> <<PptxPara(<<Run(R_padded), Run(R_blank)>>, <<"h">>),
                       PptxPara(<<Run(R_plain)>>, <<>>)>>],
     [type |-> "table", shape_index |-> i,
      table_data |-> PptxTableData(<<<<PptxCellOf(R_plain), PptxCellOf(R_padded)>>,
                                     <<PptxCellOf(R_blank), PptxCellOf(<<>>)>>>>)],
     [type |-> "image", shape_index |-> i]}

\* Shape indices are positions among the raw siblings: strictly increasing,
\* with gaps where the loader skipped a shape.
ShapeIndices == {1, 2, 12}

RECURSIVE ShapesOfSize(_, _)
RECURSIVE SeqsOfSize(_, _)
\* The shapes at index i made of exactly k shapes (k >= 1): a leaf, or a
\* group whose members are made of k - 1 shapes.
ShapesOfSize(i, k) ==
    (IF k = 1 THEN PptxLeafShapes(i) ELSE {})
    \cup {[type |-> "group", shape_index |-> i, shapes |-> ch] :
             ch \in SeqsOfSize(k - 1, 0)}

\* The sibling lists made of exactly n shapes, with indices from lo on.
SeqsOfSize(n, lo) ==
    IF n = 0 THEN {<<>>}
    ELSE UNION {UNION {LET rests == SeqsOfSize(n - k, i + 1)
                       IN  {<<sh>> \o rest : sh \in ShapesOfSize(i, k),
                                             rest \in rests} :
                       k \in 1..n} :
                i \in {j \in ShapeIndices : j >= lo}}

\* The sibling lists made of at most b shapes.
ShapeSeqs(b) == UNION {SeqsOfSize(n, 0) : n \in 0..b}

Slide(n, shapes) == [slide_index |-> n, shapes |-> shapes]

\* One slide, or two slides of which the second holds one leaf shape.
PptxDocs ==
    {<<Slide(0, s1)>> : s1 \in ShapeSeqs(MaxShapes)}
    \cup {<<Slide(0, s1), Slide(1, <<sh>>)>> :
             s1 \in ShapeSeqs(MaxShapes - 1) \ {<<>>},
             sh \in PptxLeafShapes(1)}

\* str(n): the decimal digits of n.
RECURSIVE Str(_)
Str(n) ==
    LET digit == <<"0", "1", "2", "3", "4", "5", "6", "7", "8", "9">>
    IN  IF n < 10 THEN <<digit[n + 1]>>
        ELSE Str(n \div 10) \o <<digit[(n % 10) + 1]>>

\* The literal pieces of the keys.
L_elem == <<"e", "l", "e", "m", "_">>
L_run == <<"_", "r", "u", "n", "_">>
L_cell == <<"_", "c", "e", "l", "l", "_">>
L_para == <<"_", "p", "a", "r", "a", "_">>
L_slide == <<"s", "l", "i", "d", "e", "_">>
L_shape == <<"_", "s", "h", "a", "p", "e", "_">>
L_us == <<"_">>

-----------------------------------------------------------------------------
(* DocxTranslationService: collect, key, apply.                            *)

DocxMakeKey(meta) ==
    IF meta.elem_type = "paragraph"
    THEN L_elem \o Str(meta.elem_idx) \o L_run \o Str(meta.run_idx)
    ELSE IF meta.elem_type = "table"
    THEN L_elem \o Str(meta.elem_idx)
             \o L_cell \o Str(meta.row_idx) \o L_us \o Str(meta.col_idx)
             \o L_para \o Str(meta.para_idx) \o L_run \o Str(meta.run_idx)
    ELSE <<>>

\* The item of one run: its stripped text and its metadata, nothing when
\* the stripped text is empty.
ItemOf(t, meta) ==
    IF Strip(t) # <<>> THEN <<[text |-> Strip(t), meta |-> meta]>> ELSE <<>>

DocxParaMeta(e, r) == [elem_idx |-> e, elem_type |-> "paragraph", run_idx |-> r]

DocxTableMeta(e, row, col, p, r) ==
    [elem_idx |-> e, elem_type |-> "table", row_idx |-> row, col_idx |-> col,
     para_idx |-> p, run_idx |-> r]

\* Indices are those of enumerate(): position - 1.
DocxCollectTextItems(element, elem_idx) ==
    IF element.type = "paragraph"
    THEN Concat([r \in 1..Len(element.runs) |->
                    ItemOf(element.runs[r].text, DocxParaMeta(elem_idx, r - 1))])
    ELSE IF element.type = "table"
    THEN Concat([row \in 1..Len(element.rows) |->
           Concat([col \in 1..Len(element.rows[row]) |->
             LET cell == element.rows[row][col]
             IN  Concat([p \in 1..Len(cell.paragraphs) |->
                   Concat([r \in 1..Len(cell.paragraphs[p].runs) |->
                     ItemOf(cell.paragraphs[p].runs[r].text,
                            DocxTableMeta(elem_idx, row - 1, col - 1, p - 1, r - 1))])])])])
    ELSE <<>>

DocxCollectAll(document) ==
    Concat([e \in 1..Len(document.elements) |->
               DocxCollectTextItems(document.elements[e], e - 1)])

\* A lookup that empties the text of a key with no translation.
ApplyToRunDefaultEmpty(run, key, map) ==
    [run EXCEPT !.text = IF key \in DOMAIN map THEN map[key] ELSE <<>>]

\* The run with the translation of its key, unchanged when the key has none.
ApplyToRun(run, key, map) ==
    IF key \in DOMAIN map THEN [run EXCEPT !.text = map[key]] ELSE run

\* A paragraph with its runs translated and its text recomputed from them.
DocxApplyRuns(para, e, map) ==
    LET runs == [r \in 1..Len(para.runs) |->
                    ApplyToRun(para.runs[r], DocxMakeKey(DocxParaMeta(e, r - 1)), map)]
    IN  [para EXCEPT !.runs = runs, !.text = JoinRuns(runs)]

DocxApplyCell(cell, e, row, col, map) ==
    LET paras == [p \in 1..Len(cell.paragraphs) |->
            LET para == cell.paragraphs[p]
                runs == [r \in 1..Len(para.runs) |->
                            ApplyToRun(para.runs[r],
                                       DocxMakeKey(DocxTableMeta(e, row, col, p - 1, r - 1)),
                                       map)]
            IN  [para EXCEPT !.runs = runs, !.text = JoinRuns(runs)]]
    IN  [cell EXCEPT !.paragraphs = paras,
                     !.text = JoinLines([p \in 1..Len(paras) |-> paras[p].text])]

DocxApplyTranslations(element, elem_idx, map) ==
    IF element.type = "paragraph" THEN DocxApplyRuns(element, elem_idx, map)
    ELSE IF element.type = "table"
    THEN [element EXCEPT !.rows =
            [row \in 1..Len(element.rows) |->
                [col \in 1..Len(element.rows[row]) |->
                    DocxApplyCell(element.rows[row][col], elem_idx, row - 1, col - 1, map)]]]
    ELSE element

DocxApplyAll(document, map) ==
    [elements |-> [e \in 1..Len(document.elements) |->
                      DocxApplyTranslations(document.elements[e], e - 1, map)],
     has_images |-> document.has_images]

-----------------------------------------------------------------------------
(* PptxTranslationService: collect, key, apply.                            *)

\* A join that puts no separator between the path indices.
RECURSIVE JoinPathNoSeparator(_)
JoinPathNoSeparator(path) ==
    IF path = <<>> THEN <<>> ELSE Str(path[1]) \o JoinPathNoSeparator(Tail(path))

\* '_'.join(map(str, shape_path))
RECURSIVE JoinPath(_)
JoinPath(path) ==
    IF path = <<>> THEN <<>>
    ELSE IF Len(path) = 1 THEN Str(path[1])
    ELSE Str(path[1]) \o L_us \o JoinPath(Tail(path))

PptxMakeKey(meta) ==
    IF meta.type = "run"
    THEN L_slide \o Str(meta.slide_idx) \o L_shape \o JoinPath(meta.shape_path)
             \o L_para \o Str(meta.para_idx) \o L_run \o Str(meta.run_idx)
    ELSE IF meta.type = "table_cell"
    THEN L_slide \o Str(meta.slide_idx) \o L_shape \o JoinPath(meta.shape_path)
             \o L_cell \o Str(meta.row_idx) \o L_us \o Str(meta.col_idx)
    ELSE <<>>

PptxRunMeta(s, path, p, r) ==
    [slide_idx |-> s, shape_path |-> path, para_idx |-> p, run_idx |-> r,
     type |-> "run"]

PptxCellMeta(s, path, row, col) ==
    [slide_idx |-> s, shape_path |-> path, row_idx |-> row, col_idx |-> col,
     type |-> "table_cell"]

RECURSIVE PptxCollectTextItems(_, _, _)
PptxCollectTextItems(shape, slide_idx, shape_path) ==
    LET current_path == Append(shape_path, shape.shape_index)
    IN  IF shape.type = "text"
        THEN Concat([p \in 1..Len(shape.paragraphs) |->
               Concat([r \in 1..Len(shape.paragraphs[p].runs) |->
                 ItemOf(shape.paragraphs[p].runs[r].text,
                        PptxRunMeta(slide_idx, current_path, p - 1, r - 1))])])
        ELSE IF shape.type = "table"
        THEN Concat([row \in 1..Len(shape.table_data.rows) |->
               Concat([col \in 1..Len(shape.table_data.rows[row]) |->
                 ItemOf(shape.table_data.rows[row][col].text,
                        PptxCellMeta(slide_idx, current_path, row - 1, col - 1))])])
        ELSE IF shape.type = "group"
        THEN Concat([k \in 1..Len(shape.shapes) |->
               PptxCollectTextItems(shape.shapes[k], slide_idx, current_path)])
        ELSE <<>>

PptxCollectAll(slides) ==
    Concat([s \in 1..Len(slides) |->
       Concat([k \in 1..Len(slides[s].shapes) |->
          PptxCollectTextItems(slides[s].shapes[k], slides[s].slide_index, <<>>)])])

RECURSIVE PptxApplyTranslations(_, _, _, _)
PptxApplyTranslations(shape, slide_idx, map, shape_path) ==
    LET current_path == Append(shape_path, shape.shape_index)
    IN  IF shape.type = "text"
        THEN [shape EXCEPT !.paragraphs =
               [p \in 1..Len(shape.paragraphs) |->
                  LET para == shape.paragraphs[p]
                      runs == [r \in 1..Len(para.runs) |->
                                 ApplyToRun(para.runs[r],
                                   PptxMakeKey(PptxRunMeta(slide_idx, current_path,
                                                           p - 1, r - 1)),
                                   map)]
                  IN  [para EXCEPT !.runs = runs, !.text = JoinRuns(runs)]]]
        ELSE IF shape.type = "table"
        THEN [shape EXCEPT !.table_data.rows =
               [row \in 1..Len(shape.table_data.rows) |->
                  [col \in 1..Len(shape.table_data.rows[row]) |->
                     ApplyToRun(shape.table_data.rows[row][col],
                                PptxMakeKey(PptxCellMeta(slide_idx, current_path,
                                                         row - 1, col - 1)),
                                map)]]]
        ELSE IF shape.type = "group"
        THEN [shape EXCEPT !.shapes =
               [k \in 1..Len(shape.shapes) |->
                  PptxApplyTranslations(shape.shapes[k], slide_idx, map, current_path)]]
        ELSE shape

PptxApplyAll(slides, map) ==
    [s \in 1..Len(slides) |->
        [slide_index |-> slides[s].slide_index,
         shapes |-> [k \in 1..Len(slides[s].shapes) |->
                       PptxApplyTranslations(slides[s].shapes[k],
                                             slides[s].slide_index, map, <<>>)]]]

-----------------------------------------------------------------------------
(* The translation primitive, when it succeeds: a text that differs from   *)
(* its source and tells which source it translates.                        *)

Translate(t) == <<"T">> \o t

-----------------------------------------------------------------------------
(* What the primitive can do with one call, and what the caller gets.      *)

\* A response that carries one of the guard phrases of _clean_translation.
Refusal == <<"i'm sorry">>
GuardPhrases == {"i'm sorry", "i am sorry", "cannot assist", "can't assist",
                 "not able to help", "i cannot comply"}

Fates == {"ok", "empty", "refusal", "raise"}

\* translate_text returns result.final_output, whatever it is.
Response(f, t) ==
    CASE f = "ok" -> Translate(t)
      [] f = "empty" -> <<>>
      [] f = "refusal" -> Refusal

\* PdfFormattingService._clean_translation
_clean_translation(original, translated) ==
    IF translated = <<>> THEN original
    ELSE IF Strip(translated) = <<>> THEN original
    ELSE IF \E k \in 1..Len(Strip(translated)) :
                Strip(translated)[k] \in GuardPhrases THEN original
    ELSE Strip(translated)

\* The values the jobs pass to progress_callback.  int((a / b) * k) is the
\* floor of a * k / b for the totals of this model.
StandardProgress(done, total) == (done * 90) \div total
DocxProgress(index, total) == 10 + (((index + 1) * 85) \div total)
PptxProgress(index, total) == ((index + 1) * 90) \div total
LargeProgress(index, total) == 5 + (((index + 1) * 90) \div total)

\* The validation reports.  validate_translation returns the parsed report,
\* or a report of score 0 when the response cannot be parsed or the call
\* raises.
Report(s, r) == [score |-> s, rec |-> r, issues |-> <<>>]
ErrorReport(r, type) ==
    [score |-> 0, rec |-> r,
     issues |-> <<[severity |-> "critical", type |-> type]>>]
ParsedReports == {Report(59, "pass"), Report(60, "review"),
                  Report(100, "retranslate")}

\* What a call of the validator agent can come to: a JSON object, a text
\* that is not JSON, a JSON value that is not an object, an exception.
ValidatorOutcomes ==
    {[kind |-> "parsed", report |-> r] : r \in ParsedReports}
        \cup {[kind |-> k, report |-> Report(0, "none")] :
                 k \in {"unparseable", "not_an_object", "error"}}

\* A validator that answers every failure with the report of an exception.
ValidateAllErrorsAlike(out) ==
    IF out.kind = "parsed" THEN out.report
    ELSE ErrorReport("review", "system_error")

\* json.loads raises JSONDecodeError on a text that is not JSON; adding the
\* metadata to a value that is not an object raises TypeError, which is
\* handled like any exception of the agent.
validate_translation(out) ==
    CASE out.kind = "parsed" -> out.report
      [] out.kind = "unparseable" -> ErrorReport("retranslate", "validation_error")
      [] out.kind \in {"not_an_object", "error"} ->
            ErrorReport("review", "system_error")
ValidatorFails(out) == out.kind # "parsed"
NoReport == Report(-1, "none")

\* A test that looks at the score alone.
ShouldRetryScoreOnly(report) == report.score < RetryThreshold

\* The test of _validate_and_retry_chunk.
ShouldRetry(report) ==
    report.score < RetryThreshold \/ report.rec = "retranslate"

Min(a, b) == IF a < b THEN a ELSE b

\* random.sample(range(n), k) draws k distinct indices in a random order.
\* The order shows only in the order of the recorded reports: the model
\* draws the set when the sample is taken and the order when the reports
\* are recorded.
Samples(S, k) == {T \in SUBSET S : Cardinality(T) = k}

RECURSIVE Orderings(_)
Orderings(S) ==
    IF S = {} THEN {<<>>}
    ELSE UNION {{<<x>> \o q : q \in Orderings(S \ {x})} : x \in S}

-----------------------------------------------------------------------------
(* The parts of the state a specification does not use stay as they are.   *)

EmptyMap == [k \in {} |-> <<>>]

ChunkIdle ==
    /\ cpc = "off"
    /\ text = <<>>
    /\ maxChars = 1
    /\ overlapChars = 0
    /\ smartChunks = <<>>
    /\ legacyChunks = <<>>

TreeIdle ==
    /\ tpc = "off"
    /\ docKind = "docx"
    /\ doc = <<>>
    /\ items = <<>>
    /\ tmap = EmptyMap
    /\ outDoc = <<>>

ReqIdle ==
    /\ rpc = "off"
    /\ workflow = "standard"
    /\ validation = FALSE
    /\ units = <<>>
    /\ overlap = <<>>
    /\ limit = 1
    /\ capacity = 1
    /\ semValue = 1
    /\ globalValue = GlobalLimit
    /\ lockHeld = FALSE
    /\ completed = 0
    /\ jpc = <<>>
    /\ fate = <<>>
    /\ taskResult = <<>>
    /\ results = <<>>
    /\ log = <<>>
    /\ failures = 0
    /\ sample = {}
    /\ vpc = <<>>
    /\ vReport = <<>>
    /\ retries = <<>>
    /\ validationResults = <<>>
    /\ docLeft = 0
    /\ docReports = <<>>
    /\ output = <<>>

NoJobs == [waiting |-> 0, admitted |-> 0, running |-> 0, lockwait |-> 0,
           reporting |-> 0, ended |-> 0, raised |-> 0]
NoTasks == [validating |-> 0, waiting |-> 0, admitted |-> 0, running |-> 0,
            ended |-> 0]

AdmIdle ==
    /\ apc = "off"
    /\ aLimit = 1
    /\ aSem = 1
    /\ aGlobal = GlobalLimit
    /\ aLock = FALSE
    /\ tjobs = NoJobs
    /\ rjobs = NoTasks

SmpIdle ==
    /\ spc = "off"
    /\ sampler = "standard"
    /\ sUnits = 0
    /\ sSize = 0
    /\ sIndices = <<>>
    /\ sValidated = <<>>

RteIdle ==
    /\ fpc = "off"
    /\ filePath = ""
    /\ fileLen = 0
    /\ chosen = "none"

NoSummary == [validated |-> "not yet"]

SumIdle ==
    /\ mpc = "off"
    /\ qScores = <<>>
    /\ orchSummary = NoSummary
    /\ docSummary = NoSummary

ShrIdle ==
    /\ dLimit = <<>>
    /\ dSem = <<>>
    /\ dJobs = <<>>
    /\ gSem = GlobalLimit

-----------------------------------------------------------------------------
(* The chunkers as a state machine: an input is drawn, one chunker runs.   *)

ChunkStart ==
    /\ cpc = "input"
    /\ text \in Texts
    /\ maxChars \in 1..MaxChunkChars
    /\ overlapChars \in 0..MaxOverlapChars
    /\ smartChunks = <<>>
    /\ legacyChunks = <<>>

ChunkInit == ChunkStart /\ TreeIdle /\ ReqIdle /\ AdmIdle /\ SmpIdle
    /\ RteIdle /\ SumIdle /\ ShrIdle

RunSmartChunker ==
    /\ cpc = "input"
    /\ smartChunks' = SmartChunkText(text, maxChars, overlapChars)
    /\ cpc' = "smart"
    /\ UNCHANGED <<text, maxChars, overlapChars, legacyChunks>>
    /\ UNCHANGED <<treeVars, reqVars, admVars, smpVars, rteVars, sumVars, shrVars>>

RunLegacyChunker ==
    /\ cpc = "input"
    /\ legacyChunks' = LegacyChunkText(text, maxChars)
    /\ cpc' = "legacy"
    /\ UNCHANGED <<text, maxChars, overlapChars, smartChunks>>
    /\ UNCHANGED <<treeVars, reqVars, admVars, smpVars, rteVars, sumVars, shrVars>>

ChunkNext == RunSmartChunker \/ RunLegacyChunker

ChunkSpec == ChunkInit /\ [][ChunkNext]_vars

-----------------------------------------------------------------------------
(* The structure-preserving services as a state machine: a document is     *)
(* loaded, its items are collected and translated, the translations are    *)
(* applied back.                                                           *)

CollectAll(kind, d) ==
    IF kind = "docx" THEN DocxCollectAll(d) ELSE PptxCollectAll(d)

MakeKey(kind, meta) ==
    IF kind = "docx" THEN DocxMakeKey(meta) ELSE PptxMakeKey(meta)

ApplyAll(kind, d, map) ==
    IF kind = "docx" THEN DocxApplyAll(d, map) ELSE PptxApplyAll(d, map)

\* translations_map built by the loop over zip(item_metadata, translated):
\* a later item with the same key overwrites an earlier one.
BuildMap(kind, its, translated) ==
    LET keyOf(i) == MakeKey(kind, its[i].meta)
        last(k) == CHOOSE i \in 1..Len(its) :
                      /\ keyOf(i) = k
                      /\ \A j \in 1..Len(its) : keyOf(j) = k => j <= i
    IN  [k \in {keyOf(i) : i \in 1..Len(its)} |-> translated[last(k)]]

TreeStart ==
    /\ tpc = "input"
    /\ \/ docKind = "docx" /\ doc \in DocxDocs
       \/ docKind = "pptx" /\ doc \in PptxDocs
    /\ items = <<>>
    /\ tmap = EmptyMap
    /\ outDoc = <<>>

TreeInit == TreeStart /\ ChunkIdle /\ ReqIdle /\ AdmIdle /\ SmpIdle
    /\ RteIdle /\ SumIdle /\ ShrIdle

Collect ==
    /\ tpc = "input"
    /\ items' = CollectAll(docKind, doc)
    /\ tpc' = "collected"
    /\ UNCHANGED <<docKind, doc, tmap, outDoc>>
    /\ UNCHANGED <<chunkVars, reqVars, admVars, smpVars, rteVars, sumVars, shrVars>>

\* total_items == 0: the service returns its input.
ReturnUntranslated ==
    /\ tpc = "collected"
    /\ items = <<>>
    /\ outDoc' = doc
    /\ tpc' = "applied"
    /\ UNCHANGED <<docKind, doc, items, tmap>>
    /\ UNCHANGED <<chunkVars, reqVars, admVars, smpVars, rteVars, sumVars, shrVars>>

\* Every item is translated and stored under its key.
TranslateItems ==
    /\ tpc = "collected"
    /\ items # <<>>
    /\ tmap' = BuildMap(docKind, items,
                        [i \in 1..Len(items) |-> Translate(items[i].text)])
    /\ tpc' = "mapped"
    /\ UNCHANGED <<docKind, doc, items, outDoc>>
    /\ UNCHANGED <<chunkVars, reqVars, admVars, smpVars, rteVars, sumVars, shrVars>>

ApplyTranslations ==
    /\ tpc = "mapped"
    /\ outDoc' = ApplyAll(docKind, doc, tmap)
    /\ tpc' = "applied"
    /\ UNCHANGED <<docKind, doc, items, tmap>>
    /\ UNCHANGED <<chunkVars, reqVars, admVars, smpVars, rteVars, sumVars, shrVars>>

\* _apply_translations on its own, with a mapping that has no entry.
ApplyEmptyMapping ==
    /\ tpc = "input"
    /\ outDoc' = ApplyAll(docKind, doc, EmptyMap)
    /\ tpc' = "applied_empty"
    /\ UNCHANGED <<docKind, doc, items, tmap>>
    /\ UNCHANGED <<chunkVars, reqVars, admVars, smpVars, rteVars, sumVars, shrVars>>

TreeNext ==
    \/ Collect
    \/ ReturnUntranslated
    \/ TranslateItems
    \/ ApplyTranslations
    \/ ApplyEmptyMapping

TreeSpec == TreeInit /\ [][TreeNext]_vars

-----------------------------------------------------------------------------
(* One translation request: TranslationOrchestrator.translate and the      *)
(* workflow it selects.  The jobs of the request run concurrently; each    *)
(* action below is the code one coroutine runs between two suspensions.    *)

Workflows == {"standard", "large", "docx", "pptx", "pdf"}

\* The units are pairwise different texts.
UnitsOf(n) == [i \in 1..n |-> <<"p">> \o Str(i)]

\* has_overlap of the chunks of a large document: the first chunk has no
\* overlap, a later one has it when _get_overlap of the chunk before it is
\* not empty.  The other workflows have no such flag.
OverlapFlags(w, n) ==
    IF w = "large"
    THEN {f \in [1..n -> BOOLEAN] : n >= 1 => ~f[1]}
    ELSE {[i \in 1..n |-> FALSE]}

N == Len(units)

ReqStart ==
    /\ rpc = "idle"
    /\ workflow \in Workflows
    /\ validation \in BOOLEAN
    /\ \E n \in 0..MaxLargeUnits :
          /\ workflow # "large" => n <= MaxUnits
          /\ units = UnitsOf(n)
          /\ overlap \in OverlapFlags(workflow, n)
          /\ jpc = [i \in 1..n |-> "new"]
          /\ fate = [i \in 1..n |-> "none"]
          /\ taskResult = [i \in 1..n |-> <<>>]
          /\ vpc = [i \in 1..n |-> "off"]
          /\ vReport = [i \in 1..n |-> NoReport]
          /\ retries = [i \in 1..n |-> 0]
    /\ limit \in 1..MaxLimit
    /\ capacity = limit
    /\ semValue = limit
    /\ globalValue = GlobalLimit
    /\ lockHeld = FALSE
    /\ completed = 0
    /\ results = <<>>
    /\ log = <<>>
    /\ failures = 0
    /\ sample = {}
    /\ validationResults = <<>>
    /\ docLeft = 0
    /\ docReports = <<>>
    /\ output = <<>>

ReqInit == ReqStart /\ ChunkIdle /\ TreeIdle /\ AdmIdle /\ SmpIdle
    /\ RteIdle /\ SumIdle /\ ShrIdle

\* A semaphore that lets every acquire through.
CanAcquireAlways(value) == TRUE

\* asyncio.Semaphore: acquire goes through when the value is positive.
CanAcquire(value) == value > 0

\* previous_translation[-200:]
LastChars(t, n) == SubSeq(t, (IF Len(t) > n THEN Len(t) - n + 1 ELSE 1), Len(t))

ContextHint(prev) == <<"[ctx:">> \o LastChars(prev, HintChars) \o <<"]">>
HasOverlap(i) == overlap[i]

\* The translation of the last chunk of the batch before chunk i's batch.
PreviousTranslation(i) == taskResult[((i - 1) \div BatchSize) * BatchSize]

\* A translator that gives the hint to every chunk after the first batch.
JobInputHintAlways(i) ==
    IF /\ workflow = "large"
       /\ i > BatchSize
       /\ PreviousTranslation(i) # <<>>
    THEN ContextHint(PreviousTranslation(i)) \o units[i]
    ELSE units[i]

\* The text a job hands to the primitive.  The large-document translator
\* puts a context hint before a chunk with overlap once a batch is done.
JobInput(i) ==
    IF /\ workflow = "large"
       /\ i > BatchSize
       /\ PreviousTranslation(i) # <<>>
       /\ HasOverlap(i)
    THEN ContextHint(PreviousTranslation(i)) \o units[i]
    ELSE units[i]

\* What the workflow reports before it dispatches its jobs.
Prelude(w, n) ==
    CASE w = "standard" -> <<>>
      [] w = "large" -> IF n > 0 THEN <<5, 5>> ELSE <<5>>
      [] w = "docx" -> IF n > 0 THEN <<5, 10>> ELSE <<5>>
      [] w = "pptx" -> <<5, 10>>
      [] w = "pdf" -> IF n > 0 THEN <<10>> ELSE <<>>

\* The loader raises, or LoaderFactory.get_loader rejects the file type.
LoadFails ==
    /\ rpc = "idle"
    /\ log' = log \o (IF workflow \in {"docx", "pptx"} THEN <<5>> ELSE <<>>)
    /\ rpc' = "failed"
    /\ UNCHANGED <<workflow, validation, units, overlap, limit, results, output>>
    /\ UNCHANGED <<jobVars, gateVars, valVars, chunkVars, treeVars, admVars, smpVars, rteVars, sumVars, shrVars>>

\* The document is loaded and the jobs are created: all of them, or the
\* first batch of the large-document translator.
BeginTranslation ==
    /\ rpc = "idle"
    /\ log' = log \o Prelude(workflow, N)
    /\ capacity' = IF workflow = "large" THEN DefaultConcurrency ELSE semValue
    /\ semValue' = capacity'
    /\ jpc' = [i \in 1..N |->
                 IF workflow = "large" /\ i > BatchSize THEN "new"
                 ELSE "queued"]
    /\ rpc' = "translating"
    /\ UNCHANGED <<workflow, validation, units, overlap, limit, results, output>>
    /\ UNCHANGED <<fate, taskResult, failures>>
    /\ UNCHANGED <<globalValue, lockHeld, completed>>
    /\ UNCHANGED <<valVars, chunkVars, treeVars, admVars, smpVars, rteVars, sumVars, shrVars>>

\* A job enters "async with self.semaphore" and calls translate_text, which
\* enters "async with _TRANSLATION_SEMAPHORE".  Tasks start in creation order
\* and a semaphore wakes its waiters first come first served.  One request
\* of this size never exhausts _TRANSLATION_SEMAPHORE, so both are taken in
\* one step here; GateSpec has the jobs that wait between the two.
JobStart(i) ==
    /\ jpc[i] = "queued"
    /\ \A j \in 1..(i - 1) : jpc[j] # "queued"
    /\ CanAcquire(semValue)
    /\ CanAcquire(globalValue)
    /\ semValue' = semValue - 1
    /\ globalValue' = globalValue - 1
    /\ jpc' = [jpc EXCEPT ![i] = "call"]
    /\ UNCHANGED <<rpc, workflow, validation, units, overlap, limit, results, log, output>>
    /\ UNCHANGED <<fate, taskResult, failures>>
    /\ UNCHANGED <<capacity, lockHeld, completed>>
    /\ UNCHANGED <<valVars, chunkVars, treeVars, admVars, smpVars, rteVars, sumVars, shrVars>>

\* The job of the standard workflow takes _progress_lock, counts itself and
\* reports (orchestrator.py, _translate_chunk_with_progress).
CountAndReport(i) ==
    /\ lockHeld' = TRUE
    /\ completed' = completed + 1
    /\ log' = Append(log, StandardProgress(completed', N))
    /\ jpc' = [jpc EXCEPT ![i] = "callback"]

\* A semaphore that keeps the permit of a call that raised.
ReleaseUnlessRaised(f, value) == IF f = "raise" THEN value ELSE value + 1

\* The end of "async with self.semaphore": __aexit__ releases the permit,
\* whether the body returned or raised.
ReleaseAfter(f, value) == value + 1

\* The primitive call of job i ends with fate f.
JobReturns(i, f) ==
    /\ jpc[i] = "call"
    /\ f # "ok" => failures < MaxFailures
    /\ failures' = IF f = "ok" THEN failures ELSE failures + 1
    /\ fate' = [fate EXCEPT ![i] = f]
    /\ globalValue' = globalValue + 1
    /\ IF workflow = "pdf"
       THEN \* try/except inside the semaphore: the source text on an exception
            /\ taskResult' = [taskResult EXCEPT ![i] =
                   IF f = "raise" THEN units[i] ELSE Response(f, JobInput(i))]
            /\ semValue' = ReleaseAfter(f, semValue)
            /\ jpc' = [jpc EXCEPT ![i] = "done"]
            /\ UNCHANGED <<log, lockHeld, completed>>
       ELSE IF f = "raise"
       THEN \* the exception leaves the job; the semaphore is released
            /\ semValue' = ReleaseAfter(f, semValue)
            /\ jpc' = [jpc EXCEPT ![i] = "raised"]
            /\ UNCHANGED <<taskResult, log, lockHeld, completed>>
       ELSE IF workflow = "standard"
       THEN /\ taskResult' = [taskResult EXCEPT ![i] = Response(f, JobInput(i))]
            /\ semValue' = ReleaseAfter(f, semValue)
            /\ IF lockHeld
               THEN /\ jpc' = [jpc EXCEPT ![i] = "lockwait"]
                    /\ UNCHANGED <<log, lockHeld, completed>>
               ELSE CountAndReport(i)
       ELSE \* DOCX, PPTX, large: the progress is reported inside the semaphore
            /\ taskResult' = [taskResult EXCEPT ![i] = Response(f, JobInput(i))]
            /\ log' = Append(log,
                   CASE workflow = "docx" -> DocxProgress(i - 1, N)
                     [] workflow = "pptx" -> PptxProgress(i - 1, N)
                     [] workflow = "large" -> LargeProgress(i - 1, N))
            /\ jpc' = [jpc EXCEPT ![i] = "callback"]
            /\ UNCHANGED <<semValue, lockHeld, completed>>
    /\ UNCHANGED <<rpc, workflow, validation, units, overlap, limit, results, output>>
    /\ UNCHANGED <<capacity, valVars, chunkVars, treeVars, admVars, smpVars, rteVars, sumVars, shrVars>>

\* A job of the standard workflow gets _progress_lock after waiting for it.
LockAcquire(i) ==
    /\ jpc[i] = "lockwait"
    /\ ~lockHeld
    /\ CountAndReport(i)
    /\ UNCHANGED <<rpc, workflow, validation, units, overlap, limit, results, output>>
    /\ UNCHANGED <<fate, taskResult, failures>>
    /\ UNCHANGED <<capacity, semValue, globalValue>>
    /\ UNCHANGED <<valVars, chunkVars, treeVars, admVars, smpVars, rteVars, sumVars, shrVars>>

\* progress_callback returns: the job leaves the lock (standard) or the
\* semaphore (DOCX, PPTX, large) and ends.
CallbackReturns(i) ==
    /\ jpc[i] = "callback"
    /\ jpc' = [jpc EXCEPT ![i] = "done"]
    /\ IF workflow = "standard"
       THEN lockHeld' = FALSE /\ UNCHANGED semValue
       ELSE semValue' = semValue + 1 /\ UNCHANGED lockHeld
    /\ UNCHANGED <<rpc, workflow, validation, units, overlap, limit, results, log, output>>
    /\ UNCHANGED <<fate, taskResult, failures>>
    /\ UNCHANGED <<capacity, globalValue, completed>>
    /\ UNCHANGED <<valVars, chunkVars, treeVars, admVars, smpVars, rteVars, sumVars, shrVars>>

\* _translate_with_context: the gather of one batch has returned and the
\* jobs of the next batch are created.
NextBatch ==
    /\ rpc = "translating"
    /\ workflow = "large"
    /\ \E c \in 1..(N - 1) :
          /\ \A i \in 1..c : jpc[i] = "done"
          /\ \A i \in (c + 1)..N : jpc[i] = "new"
          /\ jpc' = [i \in 1..N |->
                       IF i > c /\ i <= c + BatchSize THEN "queued" ELSE jpc[i]]
    /\ UNCHANGED <<rpc, workflow, validation, units, overlap, limit, results, log, output>>
    /\ UNCHANGED <<fate, taskResult, failures>>
    /\ UNCHANGED <<gateVars, valVars, chunkVars, treeVars, admVars, smpVars, rteVars, sumVars, shrVars>>

\* gather re-raises the exception of a job: the request fails.
GatherRaises ==
    /\ rpc = "translating"
    /\ \E i \in 1..N : jpc[i] = "raised"
    /\ rpc' = "failed"
    /\ UNCHANGED <<workflow, validation, units, overlap, limit, results, log, output>>
    /\ UNCHANGED <<jobVars, gateVars, valVars, chunkVars, treeVars, admVars, smpVars, rteVars, sumVars, shrVars>>

\* What the workflow reports once its jobs have all ended.
Postlude(w, n) ==
    CASE w = "standard" -> <<>>
      [] w = "large" -> IF n > 0 THEN <<100>> ELSE <<>>
      [] w = "docx" -> IF n > 0 THEN <<100>> ELSE <<>>
      [] w = "pptx" -> IF n > 0 THEN <<100>> ELSE <<>>
      [] w = "pdf" -> IF n > 0 THEN <<90>> ELSE <<>>

\* A gather that returns the results in the reverse order.
GatherReversed(res) == [i \in 1..Len(res) |-> res[Len(res) + 1 - i]]

\* gather returns the results of the jobs in the order of its arguments.
Gather(res) == [i \in 1..Len(res) |-> res[i]]

\* A validation phase in every workflow that the caller enabled it for.
ValidatesWhenEnabled(w, enabled) == enabled

\* "if self.enable_validation:" of _translate_standard, which a large
\* document has left before (return await self._translate_large_document).
ValidatesSample(w, enabled) == w = "standard" /\ enabled

\* Every job has ended: gather returns.  The PDF service cleans each result;
\* the standard workflow with validation draws its sample and creates the
\* validation tasks.
TranslationEnds ==
    /\ rpc = "translating"
    /\ \A i \in 1..N : jpc[i] = "done"
    /\ results' = IF workflow = "pdf"
                  THEN [i \in 1..N |->
                          _clean_translation(units[i], Gather(taskResult)[i])]
                  ELSE Gather(taskResult)
    /\ IF ValidatesSample(workflow, validation)
       THEN /\ log' = Append(log, 95)
            /\ sample' \in Samples(1..N, Min(SampleSize, N))
            /\ vpc' = [i \in 1..N |->
                         IF i \in sample' THEN "validate1" ELSE "off"]
            /\ rpc' = "validating"
       ELSE /\ log' = log \o Postlude(workflow, N)
            /\ rpc' = "writing"
            /\ UNCHANGED <<sample, vpc>>
    /\ UNCHANGED <<workflow, validation, units, overlap, limit, output>>
    /\ UNCHANGED <<jobVars, gateVars>>
    /\ UNCHANGED <<vReport, retries, validationResults, docLeft, docReports>>
    /\ UNCHANGED <<chunkVars, treeVars, admVars, smpVars, rteVars, sumVars, shrVars>>

\* _validate_and_retry_chunk: the first validation of unit i returns.
ValidatorReturns(i, out) ==
    /\ vpc[i] = "validate1"
    /\ ValidatorFails(out) => failures < MaxFailures
    /\ failures' = IF ValidatorFails(out) THEN failures + 1 ELSE failures
    /\ vReport' = [vReport EXCEPT ![i] = validate_translation(out)]
    /\ vpc' = [vpc EXCEPT ![i] =
                 IF ShouldRetry(vReport'[i]) THEN "retrywait" ELSE "done"]
    /\ UNCHANGED <<rpc, workflow, validation, units, overlap, limit, results, log, output>>
    /\ UNCHANGED <<jpc, fate, taskResult, gateVars>>
    /\ UNCHANGED <<sample, retries, validationResults, docLeft, docReports>>
    /\ UNCHANGED <<chunkVars, treeVars, admVars, smpVars, rteVars, sumVars, shrVars>>

\* The retry enters the semaphore and calls the primitive again.
RetryStart(i) ==
    /\ vpc[i] = "retrywait"
    /\ CanAcquire(semValue)
    /\ CanAcquire(globalValue)
    /\ semValue' = semValue - 1
    /\ globalValue' = globalValue - 1
    /\ retries' = [retries EXCEPT ![i] = retries[i] + 1]
    /\ vpc' = [vpc EXCEPT ![i] = "retrycall"]
    /\ UNCHANGED <<rpc, workflow, validation, units, overlap, limit, results, log, output>>
    /\ UNCHANGED <<jobVars, capacity, lockHeld, completed>>
    /\ UNCHANGED <<sample, vReport, validationResults, docLeft, docReports>>
    /\ UNCHANGED <<chunkVars, treeVars, admVars, smpVars, rteVars, sumVars, shrVars>>

\* A retry that stores its output in the first entry.
ReplaceFirst(res, i, t) == [res EXCEPT ![1] = t]

\* translated_chunks[idx] = new_translation
ReplaceAt(res, i, t) == [res EXCEPT ![i] = t]

\* The retry's call ends: its output replaces translated_chunks[idx].
RetryReturns(i, f) ==
    /\ vpc[i] = "retrycall"
    /\ f # "ok" => failures < MaxFailures
    /\ failures' = IF f = "ok" THEN failures ELSE failures + 1
    /\ semValue' = ReleaseAfter(f, semValue)
    /\ globalValue' = globalValue + 1
    /\ IF f = "raise"
       THEN /\ vpc' = [vpc EXCEPT ![i] = "raised"]
            /\ UNCHANGED results
       ELSE /\ vpc' = [vpc EXCEPT ![i] = "validate2"]
            /\ results' = ReplaceAt(results, i, Response(f, units[i]))
    /\ UNCHANGED <<rpc, workflow, validation, units, overlap, limit, log, output>>
    /\ UNCHANGED <<jpc, fate, taskResult>>
    /\ UNCHANGED <<capacity, lockHeld, completed>>
    /\ UNCHANGED <<sample, vReport, retries, validationResults, docLeft, docReports>>
    /\ UNCHANGED <<chunkVars, treeVars, admVars, smpVars, rteVars, sumVars, shrVars>>

\* A task that would go back to the retry on a low second report.
RetryAgainIfLow(report) == IF ShouldRetry(report) THEN "retrywait" ELSE "done"

\* "return retry_result": the task ends, whatever the second report says.
AfterRetryValidation(report) == "done"

\* The validation of the retry returns: its report is the task's result.
RetryValidated(i, out) ==
    /\ vpc[i] = "validate2"
    /\ ValidatorFails(out) => failures < MaxFailures
    /\ failures' = IF ValidatorFails(out) THEN failures + 1 ELSE failures
    /\ vReport' = [vReport EXCEPT ![i] = validate_translation(out)]
    /\ vpc' = [vpc EXCEPT ![i] = AfterRetryValidation(vReport'[i])]
    /\ UNCHANGED <<rpc, workflow, validation, units, overlap, limit, results, log, output>>
    /\ UNCHANGED <<jpc, fate, taskResult, gateVars>>
    /\ UNCHANGED <<sample, retries, validationResults, docLeft, docReports>>
    /\ UNCHANGED <<chunkVars, treeVars, admVars, smpVars, rteVars, sumVars, shrVars>>

\* gather re-raises the exception of a retry: the request fails.
ValidationRaises ==
    /\ rpc = "validating"
    /\ \E i \in 1..N : vpc[i] = "raised"
    /\ rpc' = "failed"
    /\ UNCHANGED <<workflow, validation, units, overlap, limit, results, log, output>>
    /\ UNCHANGED <<jobVars, gateVars, valVars, chunkVars, treeVars, admVars, smpVars, rteVars, sumVars, shrVars>>

\* Every validation task has ended: their reports are recorded in the order
\* of the sample.
ValidationEnds ==
    /\ rpc = "validating"
    /\ \A i \in sample : vpc[i] = "done"
    /\ \E q \in Orderings(sample) :
          validationResults' =
              validationResults \o [k \in 1..Len(q) |-> vReport[q[k]]]
    /\ rpc' = "writing"
    /\ UNCHANGED <<workflow, validation, units, overlap, limit, results, log, output>>
    /\ UNCHANGED <<jobVars, gateVars>>
    /\ UNCHANGED <<sample, vpc, vReport, retries, docLeft, docReports>>
    /\ UNCHANGED <<chunkVars, treeVars, admVars, smpVars, rteVars, sumVars, shrVars>>

\* What the workflow reports just before it writes, and once it is done.
BeforeWrite(w) ==
    CASE w \in {"standard", "large"} -> <<98>>
      [] w \in {"docx", "pptx"} -> <<95>>
      [] w = "pdf" -> <<>>

\* A writer that is handed the outputs before the last one is there.
WrittenBeforeLast(w, res) ==
    IF res = <<>> THEN <<>> ELSE SubSeq(res, 1, Len(res) - 1)

\* What the writer receives: the unit outputs, merged into one page by the
\* large-document workflow.
Written(w, res) == IF w = "large" THEN <<Concat(res)>> ELSE res

\* The artifact is written.  The standard and large workflows then report
\* 100 and end; so does the PDF service, whose caller may still validate;
\* the DOCX and PPTX workflows report 100 only after the validation.
WriteOutput ==
    /\ rpc = "writing"
    /\ output' = Written(workflow, results)
    /\ IF workflow \in {"standard", "large"}
       THEN /\ log' = log \o BeforeWrite(workflow) \o <<100>>
            /\ rpc' = "done"
       ELSE IF workflow = "pdf"
       THEN /\ log' = log \o (IF N > 0 THEN <<100>> ELSE <<>>)
            /\ rpc' = IF validation THEN "docvalidate" ELSE "done"
       ELSE /\ log' = log \o BeforeWrite(workflow)
                         \o (IF validation THEN <<>> ELSE <<100>>)
            /\ rpc' = IF validation THEN "docvalidate" ELSE "done"
    /\ UNCHANGED <<workflow, validation, units, overlap, limit, results>>
    /\ UNCHANGED <<jobVars, gateVars, valVars, chunkVars, treeVars, admVars, smpVars, rteVars, sumVars, shrVars>>

\* The writer raises.
WriteFails ==
    /\ rpc = "writing"
    /\ log' = log \o BeforeWrite(workflow)
    /\ rpc' = "failed"
    /\ UNCHANGED <<workflow, validation, units, overlap, limit, results, output>>
    /\ UNCHANGED <<jobVars, gateVars, valVars, chunkVars, treeVars, admVars, smpVars, rteVars, sumVars, shrVars>>

\* What the workflow reports after _validate_document.
AfterDocValidation(w) == IF w = "pdf" THEN <<>> ELSE <<100>>

\* _validate_document loads both files and chunks their texts.
DocValidateBegin ==
    /\ rpc = "docvalidate"
    /\ docLeft' \in 1..MaxDocChunks
    /\ docReports' = <<>>
    /\ rpc' = "docvalidating"
    /\ UNCHANGED <<workflow, validation, units, overlap, limit, results, log, output>>
    /\ UNCHANGED <<jobVars, gateVars>>
    /\ UNCHANGED <<sample, vpc, vReport, retries, validationResults>>
    /\ UNCHANGED <<chunkVars, treeVars, admVars, smpVars, rteVars, sumVars, shrVars>>

\* _validate_document finds no chunk, or an exception is caught: nothing
\* is recorded.
DocValidateSkipped ==
    /\ rpc = "docvalidate"
    /\ log' = log \o AfterDocValidation(workflow)
    /\ rpc' = "done"
    /\ UNCHANGED <<workflow, validation, units, overlap, limit, results, output>>
    /\ UNCHANGED <<jobVars, gateVars, valVars, chunkVars, treeVars, admVars, smpVars, rteVars, sumVars, shrVars>>

\* One sampled chunk of the document is validated.
DocValidateChunk(out) ==
    /\ rpc = "docvalidating"
    /\ docLeft > 0
    /\ ValidatorFails(out) => failures < MaxFailures
    /\ failures' = IF ValidatorFails(out) THEN failures + 1 ELSE failures
    /\ docReports' = Append(docReports, validate_translation(out))
    /\ docLeft' = docLeft - 1
    /\ UNCHANGED <<rpc, workflow, validation, units, overlap, limit, results, log, output>>
    /\ UNCHANGED <<jpc, fate, taskResult, gateVars>>
    /\ UNCHANGED <<sample, vpc, vReport, retries, validationResults>>
    /\ UNCHANGED <<chunkVars, treeVars, admVars, smpVars, rteVars, sumVars, shrVars>>

\* The reports of the document are recorded.
DocValidateEnd ==
    /\ rpc = "docvalidating"
    /\ docLeft = 0
    /\ validationResults' = validationResults \o docReports
    /\ log' = log \o AfterDocValidation(workflow)
    /\ rpc' = "done"
    /\ UNCHANGED <<workflow, validation, units, overlap, limit, results, output>>
    /\ UNCHANGED <<jobVars, gateVars>>
    /\ UNCHANGED <<sample, vpc, vReport, retries, docLeft, docReports>>
    /\ UNCHANGED <<chunkVars, treeVars, admVars, smpVars, rteVars, sumVars, shrVars>>

\* No coroutine of the request is left: its jobs and validation tasks have
\* all ended, or were never created.
Quiescent ==
    /\ \A i \in 1..N : jpc[i] \in {"new", "done", "raised"}
    /\ \A i \in 1..N : vpc[i] \in {"off", "done", "raised"}

\* translate is called again on the same orchestrator once a request is
\* over.  It resets validation_results; the semaphores are free again;
\* _completed_chunks keeps its value (it is set in __init__ only).
NewRequest ==
    /\ rpc \in {"done", "failed"}
    /\ Quiescent
    /\ completed <= MaxCarried
    /\ rpc' = "idle"
    /\ workflow' \in Workflows
    /\ validation' \in BOOLEAN
    /\ \E n \in 0..MaxLargeUnits :
          /\ workflow' # "large" => n <= MaxUnits
          /\ units' = UnitsOf(n)
          /\ overlap' \in OverlapFlags(workflow', n)
          /\ jpc' = [i \in 1..n |-> "new"]
          /\ fate' = [i \in 1..n |-> "none"]
          /\ taskResult' = [i \in 1..n |-> <<>>]
          /\ vpc' = [i \in 1..n |-> "off"]
          /\ vReport' = [i \in 1..n |-> NoReport]
          /\ retries' = [i \in 1..n |-> 0]
    /\ capacity' = limit
    /\ semValue' = limit
    /\ results' = <<>>
    /\ log' = <<>>
    /\ failures' = 0
    /\ sample' = {}
    /\ validationResults' = <<>>
    /\ docLeft' = 0
    /\ docReports' = <<>>
    /\ output' = <<>>
    /\ UNCHANGED <<limit, globalValue, lockHeld, completed>>
    /\ UNCHANGED <<chunkVars, treeVars, admVars, smpVars, rteVars, sumVars, shrVars>>

ReqNext ==
    \/ NewRequest
    \/ LoadFails
    \/ BeginTranslation
    \/ \E i \in 1..N : JobStart(i)
    \/ \E i \in 1..N, f \in Fates : JobReturns(i, f)
    \/ \E i \in 1..N : LockAcquire(i)
    \/ \E i \in 1..N : CallbackReturns(i)
    \/ NextBatch
    \/ GatherRaises
    \/ TranslationEnds
    \/ \E i \in 1..N, out \in ValidatorOutcomes : ValidatorReturns(i, out)
    \/ \E i \in 1..N : RetryStart(i)
    \/ \E i \in 1..N, f \in Fates : RetryReturns(i, f)
    \/ \E i \in 1..N, out \in ValidatorOutcomes : RetryValidated(i, out)
    \/ ValidationRaises
    \/ ValidationEnds
    \/ WriteOutput
    \/ WriteFails
    \/ DocValidateBegin
    \/ DocValidateSkipped
    \/ \E out \in ValidatorOutcomes : DocValidateChunk(out)
    \/ DocValidateEnd

Spec == ReqInit /\ [][ReqNext]_vars

-----------------------------------------------------------------------------
(* The admission gate of the standard workflow with many jobs.  The jobs   *)
(* of one phase run the same code, so they are counted by position instead *)
(* of being told apart: waiting for self.semaphore, admitted (inside       *)
(* translate_text, before _TRANSLATION_SEMAPHORE), running (inside         *)
(* Runner.run), ended.                                                     *)

GateLimits == {1, 5, 20}

AdmStart ==
    /\ apc = "translating"
    /\ aLimit \in GateLimits
    /\ aSem = aLimit
    /\ aGlobal = GlobalLimit
    /\ aLock = FALSE
    /\ \E n \in 1..MaxGateJobs : tjobs = [NoJobs EXCEPT !.waiting = n]
    /\ rjobs = NoTasks

AdmInit == AdmStart /\ ChunkIdle /\ TreeIdle /\ ReqIdle /\ SmpIdle
    /\ RteIdle /\ SumIdle /\ ShrIdle

\* _translate_chunk_with_progress: async with self.semaphore
Admit ==
    /\ tjobs.waiting > 0
    /\ CanAcquire(aSem)
    /\ aSem' = aSem - 1
    /\ tjobs' = [tjobs EXCEPT !.waiting = @ - 1, !.admitted = @ + 1]
    /\ UNCHANGED <<apc, aLimit, aGlobal, rjobs>>
    /\ UNCHANGED aLock
    /\ UNCHANGED <<chunkVars, treeVars, reqVars, smpVars, rteVars, sumVars, shrVars>>

\* translate_text: async with _TRANSLATION_SEMAPHORE
EnterModel ==
    /\ tjobs.admitted > 0
    /\ CanAcquire(aGlobal)
    /\ aGlobal' = aGlobal - 1
    /\ tjobs' = [tjobs EXCEPT !.admitted = @ - 1, !.running = @ + 1]
    /\ UNCHANGED <<apc, aLimit, aSem, rjobs>>
    /\ UNCHANGED aLock
    /\ UNCHANGED <<chunkVars, treeVars, reqVars, smpVars, rteVars, sumVars, shrVars>>

\* Runner.run returns: both semaphores are released and the job goes on to
\* "async with self._progress_lock" (a progress callback is given).
LeaveModel ==
    /\ tjobs.running > 0
    /\ aGlobal' = aGlobal + 1
    /\ aSem' = aSem + 1
    /\ tjobs' = [tjobs EXCEPT !.running = @ - 1, !.lockwait = @ + 1]
    /\ UNCHANGED <<apc, aLimit, rjobs>>
    /\ UNCHANGED aLock
    /\ UNCHANGED <<chunkVars, treeVars, reqVars, smpVars, rteVars, sumVars, shrVars>>

\* Runner.run raises: both semaphores are released and the job ends with
\* the exception.
ModelRaises ==
    /\ tjobs.running > 0
    /\ tjobs.raised < MaxFailures
    /\ aGlobal' = aGlobal + 1
    /\ aSem' = aSem + 1
    /\ tjobs' = [tjobs EXCEPT !.running = @ - 1, !.raised = @ + 1]
    /\ UNCHANGED <<apc, aLimit, rjobs>>
    /\ UNCHANGED aLock
    /\ UNCHANGED <<chunkVars, treeVars, reqVars, smpVars, rteVars, sumVars, shrVars>>

\* A lock that stays held when its holder leaves.
LockKept(held) == held

\* The end of "async with self._progress_lock"
LockReleased(held) == FALSE

\* async with self._progress_lock: the job counts itself and calls the
\* progress callback.
GateLockAcquire ==
    /\ tjobs.lockwait > 0
    /\ ~aLock
    /\ aLock' = TRUE
    /\ tjobs' = [tjobs EXCEPT !.lockwait = @ - 1, !.reporting = @ + 1]
    /\ UNCHANGED <<apc, aLimit, aSem, aGlobal, rjobs>>
    /\ UNCHANGED <<chunkVars, treeVars, reqVars, smpVars, rteVars, sumVars, shrVars>>

\* The progress callback returns: the job leaves the lock and ends.
GateCallbackReturns ==
    /\ tjobs.reporting > 0
    /\ aLock' = LockReleased(aLock)
    /\ tjobs' = [tjobs EXCEPT !.reporting = @ - 1, !.ended = @ + 1]
    /\ UNCHANGED <<apc, aLimit, aSem, aGlobal, rjobs>>
    /\ UNCHANGED <<chunkVars, treeVars, reqVars, smpVars, rteVars, sumVars, shrVars>>

\* gather re-raises the exception of a job; the other jobs run on.
GateGatherRaises ==
    /\ apc = "translating"
    /\ tjobs.raised > 0
    /\ apc' = "failed"
    /\ UNCHANGED <<aLimit, aSem, aGlobal, aLock, tjobs, rjobs>>
    /\ UNCHANGED <<chunkVars, treeVars, reqVars, smpVars, rteVars, sumVars, shrVars>>

\* gather has returned: the validation tasks of the sample are created.
BeginValidation ==
    /\ apc = "translating"
    /\ tjobs.waiting = 0 /\ tjobs.admitted = 0 /\ tjobs.running = 0
    /\ tjobs.lockwait = 0 /\ tjobs.reporting = 0 /\ tjobs.raised = 0
    /\ rjobs' = [NoTasks EXCEPT !.validating = Min(SampleSize, tjobs.ended)]
    /\ apc' = "validating"
    /\ UNCHANGED <<aLimit, aSem, aGlobal, tjobs>>
    /\ UNCHANGED aLock
    /\ UNCHANGED <<chunkVars, treeVars, reqVars, smpVars, rteVars, sumVars, shrVars>>

\* _validate_and_retry_chunk: the first report does not ask for a retry.
Accept ==
    /\ rjobs.validating > 0
    /\ rjobs' = [rjobs EXCEPT !.validating = @ - 1, !.ended = @ + 1]
    /\ UNCHANGED <<apc, aLimit, aSem, aGlobal, tjobs>>
    /\ UNCHANGED aLock
    /\ UNCHANGED <<chunkVars, treeVars, reqVars, smpVars, rteVars, sumVars, shrVars>>

\* The first report asks for a retry: the task goes to self.semaphore.
Reject ==
    /\ rjobs.validating > 0
    /\ rjobs' = [rjobs EXCEPT !.validating = @ - 1, !.waiting = @ + 1]
    /\ UNCHANGED <<apc, aLimit, aSem, aGlobal, tjobs>>
    /\ UNCHANGED aLock
    /\ UNCHANGED <<chunkVars, treeVars, reqVars, smpVars, rteVars, sumVars, shrVars>>

\* The retry: async with self.semaphore
RetryAdmit ==
    /\ rjobs.waiting > 0
    /\ CanAcquire(aSem)
    /\ aSem' = aSem - 1
    /\ rjobs' = [rjobs EXCEPT !.waiting = @ - 1, !.admitted = @ + 1]
    /\ UNCHANGED <<apc, aLimit, aGlobal, tjobs>>
    /\ UNCHANGED aLock
    /\ UNCHANGED <<chunkVars, treeVars, reqVars, smpVars, rteVars, sumVars, shrVars>>

RetryEnterModel ==
    /\ rjobs.admitted > 0
    /\ CanAcquire(aGlobal)
    /\ aGlobal' = aGlobal - 1
    /\ rjobs' = [rjobs EXCEPT !.admitted = @ - 1, !.running = @ + 1]
    /\ UNCHANGED <<apc, aLimit, aSem, tjobs>>
    /\ UNCHANGED aLock
    /\ UNCHANGED <<chunkVars, treeVars, reqVars, smpVars, rteVars, sumVars, shrVars>>

RetryLeaveModel ==
    /\ rjobs.running > 0
    /\ aGlobal' = aGlobal + 1
    /\ aSem' = aSem + 1
    /\ rjobs' = [rjobs EXCEPT !.running = @ - 1, !.ended = @ + 1]
    /\ UNCHANGED <<apc, aLimit, tjobs>>
    /\ UNCHANGED aLock
    /\ UNCHANGED <<chunkVars, treeVars, reqVars, smpVars, rteVars, sumVars, shrVars>>

\* The gather of the validation tasks returns.
EndValidation ==
    /\ apc = "validating"
    /\ rjobs.ended = Min(SampleSize, tjobs.ended)
    /\ apc' = "done"
    /\ UNCHANGED <<aLimit, aSem, aGlobal, tjobs, rjobs>>
    /\ UNCHANGED aLock
    /\ UNCHANGED <<chunkVars, treeVars, reqVars, smpVars, rteVars, sumVars, shrVars>>

AdmNext ==
    \/ Admit
    \/ EnterModel
    \/ LeaveModel
    \/ ModelRaises
    \/ GateLockAcquire
    \/ GateCallbackReturns
    \/ GateGatherRaises
    \/ BeginValidation
    \/ Accept
    \/ Reject
    \/ RetryAdmit
    \/ RetryEnterModel
    \/ RetryLeaveModel
    \/ EndValidation

GateSpec == AdmInit /\ [][AdmNext]_vars

\* The event loop runs every task that is ready, a semaphore and a lock wake
\* a waiter when they are released, and by assumption every call of the
\* primitive ends and every progress callback returns: a step of a job that
\* stays possible is taken.
GateFairness ==
    /\ WF_vars(Admit)
    /\ WF_vars(EnterModel)
    /\ WF_vars(LeaveModel \/ ModelRaises)
    /\ WF_vars(GateLockAcquire)
    /\ WF_vars(GateCallbackReturns)
    /\ WF_vars(BeginValidation \/ GateGatherRaises)

FairStart ==
    /\ AdmStart
    /\ tjobs.waiting <= MaxFairJobs

FairInit == FairStart /\ ChunkIdle /\ TreeIdle /\ ReqIdle /\ SmpIdle
    /\ RteIdle /\ SumIdle /\ ShrIdle

FairGateSpec == FairInit /\ [][AdmNext]_vars /\ GateFairness

-----------------------------------------------------------------------------
(* The choice of the units to validate: the sample of _translate_standard  *)
(* and the one of validate_large_document.  Indices are 0-based as in the  *)
(* code.                                                                   *)

\* A draw of k indices of range(n) in which an index may come back.
RandomChoices(n, k) == [1..k -> 0..(n - 1)]

\* random.sample(range(n), k): k distinct indices of range(n), in any order.
RandomSample(n, k) == UNION {Orderings(T) : T \in Samples(0..(n - 1), k)}

\* k = min(5, total_chunks); sample_size = min(sample_size, num_chunks)
SampleCount(size, n) == Min(size, n)

SmpStart ==
    /\ spc = "input"
    /\ sUnits \in 0..MaxSampleUnits
    /\ \/ sampler = "standard" /\ sSize = SampleSize
       \/ sampler = "large_document" /\ sSize \in 0..MaxSampleSize
    /\ sIndices = <<>>
    /\ sValidated = <<>>

SmpInit == SmpStart /\ ChunkIdle /\ TreeIdle /\ ReqIdle /\ AdmIdle
    /\ RteIdle /\ SumIdle /\ ShrIdle

\* _translate_standard: sample_indices = random.sample(range(total_chunks), k)
DrawStandard ==
    /\ spc = "input"
    /\ sampler = "standard"
    /\ sIndices' \in RandomSample(sUnits, SampleCount(sSize, sUnits))
    /\ spc' = "drawn"
    /\ UNCHANGED <<sampler, sUnits, sSize, sValidated>>
    /\ UNCHANGED <<chunkVars, treeVars, reqVars, admVars, rteVars, sumVars, shrVars>>

\* validate_large_document: every index when num_chunks <= sample_size,
\* a random sample otherwise.
DrawLargeDocument ==
    /\ spc = "input"
    /\ sampler = "large_document"
    /\ LET k == SampleCount(sSize, sUnits)
       IN  IF sUnits <= k
           THEN sIndices' = [i \in 1..sUnits |-> i - 1]
           ELSE sIndices' \in RandomSample(sUnits, k)
    /\ spc' = "drawn"
    /\ UNCHANGED <<sampler, sUnits, sSize, sValidated>>
    /\ UNCHANGED <<chunkVars, treeVars, reqVars, admVars, rteVars, sumVars, shrVars>>

\* "for idx in sample_indices": the next index goes to the validator.
ValidateSampled ==
    /\ spc = "drawn"
    /\ Len(sValidated) < Len(sIndices)
    /\ sValidated' = Append(sValidated, sIndices[Len(sValidated) + 1])
    /\ UNCHANGED <<spc, sampler, sUnits, sSize, sIndices>>
    /\ UNCHANGED <<chunkVars, treeVars, reqVars, admVars, rteVars, sumVars, shrVars>>

\* The loop over sample_indices is over.
SamplingEnds ==
    /\ spc = "drawn"
    /\ Len(sValidated) = Len(sIndices)
    /\ spc' = "done"
    /\ UNCHANGED <<sampler, sUnits, sSize, sIndices, sValidated>>
    /\ UNCHANGED <<chunkVars, treeVars, reqVars, admVars, rteVars, sumVars, shrVars>>

SmpNext ==
    \/ DrawStandard
    \/ DrawLargeDocument
    \/ ValidateSampled
    \/ SamplingEnds

SampleSpec == SmpInit /\ [][SmpNext]_vars

-----------------------------------------------------------------------------
(* The choice of the workflow: translate() looks at the extension of the   *)
(* file, _translate_standard at the length of the loaded text.             *)

FilePaths == {".pptx", ".pdf", ".docx", ".DOCX", ".odt", ".txt", ".png", ".md"}

\* file_path.lower()
Lower(path) == IF path = ".DOCX" THEN ".docx" ELSE path

ImageTypes == {".png", ".jpg", ".jpeg", ".webp", ".gif"}

\* The types LoaderFactory.get_loader has a loader for.
LoadableTypes == ImageTypes \cup {".pdf", ".docx", ".odt", ".txt", ".pptx"}

\* The lengths of the pages a flat file is loaded as: the ODT, text and
\* image loaders return one page with the whole text.
LoadPages(path, n) == <<n>>

\* len("\n\n".join(pages))
RECURSIVE JoinedLength(_)
JoinedLength(pages) ==
    IF pages = <<>> THEN 0
    ELSE IF Len(pages) = 1 THEN pages[1]
    ELSE pages[1] + 2 + JoinedLength(Tail(pages))

\* A test that sends a text of the threshold's length the large way.
ReachesThreshold(total_chars) == total_chars >= LARGE_DOC_THRESHOLD

\* total_chars > LARGE_DOC_THRESHOLD
ExceedsThreshold(total_chars) == total_chars > LARGE_DOC_THRESHOLD

FileLengths ==
    (0..MaxDelta)
        \cup ((LARGE_DOC_THRESHOLD - MaxDelta)..(LARGE_DOC_THRESHOLD + MaxDelta))

RteStart ==
    /\ fpc = "input"
    /\ filePath \in FilePaths
    /\ fileLen \in FileLengths
    /\ chosen = "none"

RteInit ==
    RteStart /\ ChunkIdle /\ TreeIdle /\ ReqIdle /\ AdmIdle /\ SmpIdle /\ SumIdle
        /\ ShrIdle

\* translate(): the chain of tests on file_path.lower().
RouteByExtension ==
    /\ fpc = "input"
    /\ LET file_lower == Lower(filePath)
       IN  IF file_lower = ".pptx"
           THEN chosen' = "pptx" /\ fpc' = "routed"
           ELSE IF file_lower = ".pdf"
           THEN chosen' = "pdf" /\ fpc' = "routed"
           ELSE IF file_lower = ".docx"
           THEN chosen' = "docx" /\ fpc' = "routed"
           ELSE \* .odt, the image types and everything else
                chosen' = chosen /\ fpc' = "standard_entry"
    /\ UNCHANGED <<filePath, fileLen>>
    /\ UNCHANGED <<chunkVars, treeVars, reqVars, admVars, smpVars, sumVars, shrVars>>

\* _translate_standard: LoaderFactory.get_loader raises ValueError.
StandardLoaderRejects ==
    /\ fpc = "standard_entry"
    /\ Lower(filePath) \notin LoadableTypes
    /\ fpc' = "failed"
    /\ UNCHANGED <<filePath, fileLen, chosen>>
    /\ UNCHANGED <<chunkVars, treeVars, reqVars, admVars, smpVars, sumVars, shrVars>>

\* _translate_standard: the pages are loaded and their joined length
\* decides between the large-document path and the standard one.
StandardOrLarge ==
    /\ fpc = "standard_entry"
    /\ Lower(filePath) \in LoadableTypes
    /\ chosen' = IF ExceedsThreshold(JoinedLength(LoadPages(filePath, fileLen)))
                 THEN "large" ELSE "standard"
    /\ fpc' = "routed"
    /\ UNCHANGED <<filePath, fileLen>>
    /\ UNCHANGED <<chunkVars, treeVars, reqVars, admVars, smpVars, sumVars, shrVars>>

RteNext == RouteByExtension \/ StandardLoaderRejects \/ StandardOrLarge

RouteSpec == RteInit /\ [][RteNext]_vars

-----------------------------------------------------------------------------
(* The validation summaries: get_validation_summary of the orchestrator    *)
(* and the aggregation of validate_large_document, over the same reports.  *)
(* A score a summary reports has one decimal place; the model holds it in  *)
(* tenths (747 for 74.7).                                                  *)

ScoreValues == {0, 59, 60, 74, 75, 76, 100}

ScoreLists == UNION {[1..n -> ScoreValues] : n \in 0..MaxReports}

\* sum(v.get("quality_score", 0) for v in ...)
RECURSIVE TotalQuality(_)
TotalQuality(scores) ==
    IF scores = <<>> THEN 0 ELSE Head(scores) + TotalQuality(Tail(scores))

\* round(total / n, 1), in tenths: the nearest tenth, and of two equally
\* near ones the even one.
RoundTenths(total, n) ==
    LET q == (10 * total) \div n
        r == (10 * total) % n
    IN  IF 2 * r < n THEN q
        ELSE IF 2 * r > n THEN q + 1
        ELSE IF q % 2 = 0 THEN q ELSE q + 1

\* "pass" if avg_quality >= 75 else "review" if avg_quality >= 60 else
\* "retranslate", with avg_quality = total / n
SummaryRecommendation(total, n) ==
    IF total >= 75 * n THEN "pass"
    ELSE IF total >= 60 * n THEN "review"
    ELSE "retranslate"

\* A recommendation that asks for more than 75 to pass.
DocumentRecommendationStrict(total, n) ==
    IF total > 75 * n THEN "pass"
    ELSE IF total >= 60 * n THEN "review"
    ELSE "retranslate"

\* validate_large_document: if avg_quality >= 75 ... elif avg_quality >= 60
\* ... else, with avg_quality = total / n, or 0 without validations
DocumentRecommendation(total, n) ==
    IF n = 0 THEN "retranslate"
    ELSE IF total >= 75 * n THEN "pass"
    ELSE IF total >= 60 * n THEN "review"
    ELSE "retranslate"

get_validation_summary(scores) ==
    IF scores = <<>>
    THEN [chunks_validated |-> 0, message |-> "No validation performed"]
    ELSE LET total_quality == TotalQuality(scores)
         IN  [chunks_validated |-> Len(scores),
              average_quality_score |-> RoundTenths(total_quality, Len(scores)),
              recommendation |->
                  SummaryRecommendation(total_quality, Len(scores))]

\* validate_large_document, from "Aggregate scores" on
AggregateValidations(scores) ==
    LET total_quality == TotalQuality(scores)
    IN  [quality_score |->
             IF scores = <<>> THEN 0
             ELSE RoundTenths(total_quality, Len(scores)),
         recommendation |-> DocumentRecommendation(total_quality, Len(scores)),
         chunks_validated |-> Len(scores)]

SumStart ==
    /\ mpc = "reports"
    /\ qScores \in ScoreLists
    /\ orchSummary = NoSummary
    /\ docSummary = NoSummary

SumInit ==
    SumStart /\ ChunkIdle /\ TreeIdle /\ ReqIdle /\ AdmIdle /\ SmpIdle /\ RteIdle
        /\ ShrIdle

\* The orchestrator is asked for its summary.
GetValidationSummary ==
    /\ mpc = "reports"
    /\ orchSummary = NoSummary
    /\ orchSummary' = get_validation_summary(qScores)
    /\ UNCHANGED <<mpc, qScores, docSummary>>
    /\ UNCHANGED <<chunkVars, treeVars, reqVars, admVars, smpVars, rteVars, shrVars>>

\* validate_large_document aggregates the reports of its sample.
ValidateLargeDocumentReturns ==
    /\ mpc = "reports"
    /\ docSummary = NoSummary
    /\ docSummary' = AggregateValidations(qScores)
    /\ UNCHANGED <<mpc, qScores, orchSummary>>
    /\ UNCHANGED <<chunkVars, treeVars, reqVars, admVars, smpVars, rteVars, shrVars>>

SumNext == GetValidationSummary \/ ValidateLargeDocumentReturns

SumSpec == SumInit /\ [][SumNext]_vars

-----------------------------------------------------------------------------
(* Several dispatchers in one process.  Each has a semaphore of its own;   *)
(* translate_text, which all of them call, goes through the one            *)
(* _TRANSLATION_SEMAPHORE of the module.  The jobs of a dispatcher are      *)
(* counted by position as in the gate machine.                             *)

Dispatchers == {"first", "second"}

ShrStart ==
    /\ dLimit \in [Dispatchers -> GateLimits]
    /\ dSem = dLimit
    /\ dJobs \in [Dispatchers ->
                    {[NoJobs EXCEPT !.waiting = n] : n \in 1..MaxSharedJobs}]
    /\ gSem = GlobalLimit

ShrInit ==
    ShrStart /\ ChunkIdle /\ TreeIdle /\ ReqIdle /\ AdmIdle /\ SmpIdle /\ RteIdle
        /\ SumIdle

\* async with self.semaphore, in a job of dispatcher d
DispatcherAdmits(d) ==
    /\ dJobs[d].waiting > 0
    /\ CanAcquire(dSem[d])
    /\ dSem' = [dSem EXCEPT ![d] = @ - 1]
    /\ dJobs' = [dJobs EXCEPT ![d].waiting = @ - 1, ![d].admitted = @ + 1]
    /\ UNCHANGED <<dLimit, gSem>>
    /\ UNCHANGED <<chunkVars, treeVars, reqVars, admVars, smpVars, rteVars, sumVars>>

\* A test of _TRANSLATION_SEMAPHORE that lets every call through.
GlobalGateOpen(value) == TRUE

\* translate_text: async with _TRANSLATION_SEMAPHORE
GlobalGate(value) == value > 0

\* translate_text enters _TRANSLATION_SEMAPHORE and calls Runner.run
RunnerStarts(d) ==
    /\ dJobs[d].admitted > 0
    /\ GlobalGate(gSem)
    /\ gSem' = gSem - 1
    /\ dJobs' = [dJobs EXCEPT ![d].admitted = @ - 1, ![d].running = @ + 1]
    /\ UNCHANGED <<dLimit, dSem>>
    /\ UNCHANGED <<chunkVars, treeVars, reqVars, admVars, smpVars, rteVars, sumVars>>

\* Runner.run returns or raises: both semaphores are released.
RunnerEnds(d) ==
    /\ dJobs[d].running > 0
    /\ gSem' = gSem + 1
    /\ dSem' = [dSem EXCEPT ![d] = @ + 1]
    /\ dJobs' = [dJobs EXCEPT ![d].running = @ - 1, ![d].ended = @ + 1]
    /\ UNCHANGED dLimit
    /\ UNCHANGED <<chunkVars, treeVars, reqVars, admVars, smpVars, rteVars, sumVars>>

ShrNext ==
    \/ \E d \in Dispatchers : DispatcherAdmits(d)
    \/ \E d \in Dispatchers : RunnerStarts(d)
    \/ \E d \in Dispatchers : RunnerEnds(d)

SharedSpec == ShrInit /\ [][ShrNext]_vars

-----------------------------------------------------------------------------
(* Properties of the chunkers.                                             *)

StrippedTexts == [i \in 1..Len(smartChunks) |-> StripOverlap(smartChunks[i])]

\* C5: in overlap-aware mode, concatenating in index order the chunk texts,
\* each stripped of its recorded overlap prefix the way the large-document
\* translator strips it, reproduces the original text exactly.
C5_SmartRoundTrip == cpc = "smart" => Concat(StrippedTexts) = text

\* C6: in legacy mode the plain concatenation of the chunks, in order,
\* reproduces the original text exactly.
C6_LegacyRoundTrip == cpc = "legacy" => Concat(legacyChunks) = text

\* The sentences of a text: what the sentence regular expression splits it
\* into, empty pieces left out.
SentencesOf(s) ==
    SelectSeq(Recombine(ReSplit(s, 1, 1, "sentence")), LAMBDA x : x # <<>>)

\* A chunk respects the size limit when it is no longer than mx, or is one
\* single sentence that is itself longer than mx.
WithinLimit(s, mx) == Len(s) <= mx \/ Len(SentencesOf(s)) <= 1

\* C7: every chunk emitted by either chunker (in overlap-aware mode with its
\* prepended overlap) is at most maxChars long, unless it consists of one
\* single sentence longer than maxChars.
C7_NoOversizeChunk ==
    /\ cpc = "smart" =>
          \A i \in 1..Len(smartChunks) : WithinLimit(smartChunks[i].text, maxChars)
    /\ cpc = "legacy" =>
          \A i \in 1..Len(legacyChunks) : WithinLimit(legacyChunks[i], maxChars)

\* C26: chunking the empty text yields no chunk in either mode, and no
\* chunk either chunker emits, for any text, has length zero.
C26_NoEmptyChunk ==
    /\ cpc = "smart" =>
          /\ text = <<>> => smartChunks = <<>>
          /\ \A i \in 1..Len(smartChunks) : Len(smartChunks[i].text) > 0
    /\ cpc = "legacy" =>
          /\ text = <<>> => legacyChunks = <<>>
          /\ \A i \in 1..Len(legacyChunks) : Len(legacyChunks[i]) > 0

EndsWith(s, p) ==
    Len(p) <= Len(s) /\ SubSeq(s, Len(s) - Len(p) + 1, Len(s)) = p

\* C27: a chunk of the overlap-aware chunker that is flagged has_overlap
\* begins with its recorded overlap text, and that text is a suffix of the
\* chunk emitted just before it; a chunk that is not flagged records an
\* empty overlap.
C27_OverlapIsPrefix ==
    cpc = "smart" =>
        \A i \in 1..Len(smartChunks) :
            LET c == smartChunks[i]
            IN  /\ c.has_overlap =>
                      /\ StartsWith(c.text, c.previous_context)
                      /\ i > 1
                      /\ EndsWith(smartChunks[i - 1].text, c.previous_context)
                /\ ~c.has_overlap => c.previous_context = <<>>

-----------------------------------------------------------------------------
(* Properties of the structure-preserving services.                        *)

ItemKeys == [i \in 1..Len(items) |-> MakeKey(docKind, items[i].meta)]

\* C8: the keys of the collected leaves contain no duplicates: two distinct
\* leaves never get the same key.
C8_KeysUnique ==
    tpc \in {"collected", "mapped", "applied"} =>
        \A i, j \in 1..Len(items) : i # j => ItemKeys[i] # ItemKeys[j]

\* C8 witness: a collected presentation with a run nested in a group, a
\* table cell and a leaf on a second slide.
C8_Witness ==
    /\ tpc = "collected"
    /\ docKind = "pptx"
    /\ \E i \in 1..Len(items) : Len(items[i].meta.shape_path) = 2
    /\ \E i \in 1..Len(items) : items[i].meta.type = "table_cell"
    /\ \E i \in 1..Len(items) : items[i].meta.slide_idx = 1

\* A tree without the texts its inner nodes repeat (the text of a paragraph
\* that has runs, of a DOCX cell that has paragraphs): what is left is the
\* shape of the tree, the texts of its leaves (runs, PPTX table cells,
\* paragraphs without runs, DOCX cells without paragraphs) and its non-text
\* nodes, in place.
NoCachedPara(para) ==
    IF para.runs = <<>> THEN para ELSE [para EXCEPT !.text = <<>>]

NoCachedDocxElement(el) ==
    IF el.type = "paragraph" THEN NoCachedPara(el)
    ELSE [el EXCEPT !.rows =
            [row \in 1..Len(el.rows) |->
                [col \in 1..Len(el.rows[row]) |->
                    IF el.rows[row][col].paragraphs = <<>>
                    THEN el.rows[row][col]
                    ELSE [el.rows[row][col] EXCEPT
                            !.text = <<>>,
                            !.paragraphs =
                                [p \in 1..Len(@) |-> NoCachedPara(@[p])]]]]]

RECURSIVE NoCachedShape(_)
NoCachedShape(sh) ==
    IF sh.type = "text"
    THEN [sh EXCEPT !.paragraphs = [p \in 1..Len(@) |-> NoCachedPara(@[p])]]
    ELSE IF sh.type = "group"
    THEN [sh EXCEPT !.shapes = [k \in 1..Len(@) |-> NoCachedShape(@[k])]]
    ELSE sh

NoCached(kind, d) ==
    IF kind = "docx"
    THEN [d EXCEPT !.elements = [e \in 1..Len(@) |-> NoCachedDocxElement(@[e])]]
    ELSE [s \in 1..Len(d) |->
            [d[s] EXCEPT !.shapes = [k \in 1..Len(@) |-> NoCachedShape(@[k])]]]

\* C9: applying an empty mapping yields a tree of the same shape, with the
\* same leaf texts and the same non-text nodes at the same places.
C9_EmptyMappingIdentity ==
    tpc = "applied_empty" => NoCached(docKind, outDoc) = NoCached(docKind, doc)

\* The texts of the leaves of a tree, in document order.
ParaLeaves(para) ==
    IF para.runs = <<>> THEN <<para.text>>
    ELSE [r \in 1..Len(para.runs) |-> para.runs[r].text]

DocxElementLeaves(el) ==
    IF el.type = "paragraph" THEN ParaLeaves(el)
    ELSE Concat([row \in 1..Len(el.rows) |->
           Concat([col \in 1..Len(el.rows[row]) |->
             LET cell == el.rows[row][col]
             IN  IF cell.paragraphs = <<>> THEN <<cell.text>>
                 ELSE Concat([p \in 1..Len(cell.paragraphs) |->
                                ParaLeaves(cell.paragraphs[p])])])])

RECURSIVE PptxShapeLeaves(_)
PptxShapeLeaves(sh) ==
    IF sh.type = "text"
    THEN Concat([p \in 1..Len(sh.paragraphs) |-> ParaLeaves(sh.paragraphs[p])])
    ELSE IF sh.type = "table"
    THEN Concat([row \in 1..Len(sh.table_data.rows) |->
           [col \in 1..Len(sh.table_data.rows[row]) |->
               sh.table_data.rows[row][col].text]])
    ELSE IF sh.type = "group"
    THEN Concat([k \in 1..Len(sh.shapes) |-> PptxShapeLeaves(sh.shapes[k])])
    ELSE <<>>

Leaves(kind, d) ==
    IF kind = "docx"
    THEN Concat([e \in 1..Len(d.elements) |-> DocxElementLeaves(d.elements[e])])
    ELSE Concat([s \in 1..Len(d) |->
           Concat([k \in 1..Len(d[s].shapes) |-> PptxShapeLeaves(d[s].shapes[k])])])

\* The stripped texts of the leaves that are not blank, in document order.
NonBlankLeaves(kind, d) ==
    LET ls == SelectSeq(Leaves(kind, d), LAMBDA t : Strip(t) # <<>>)
    IN  [k \in 1..Len(ls) |-> Strip(ls[k])]

\* C17: collect emits exactly one unit for each leaf whose text is neither
\* empty nor whitespace-only and none for the other leaves, and apply
\* leaves every skipped leaf exactly as it was.
C17_OneUnitPerLeaf ==
    /\ tpc \in {"collected", "mapped", "applied"} =>
          [i \in 1..Len(items) |-> items[i].text] = NonBlankLeaves(docKind, doc)
    /\ tpc = "applied" =>
          LET before == Leaves(docKind, doc)
              after == Leaves(docKind, outDoc)
          IN  /\ Len(after) = Len(before)
              /\ \A k \in 1..Len(before) :
                    Strip(before[k]) = <<>> => after[k] = before[k]

\* The leaves that have a key (runs and PPTX table cells), blank or not,
\* each with the metadata collect gives it.
DocxKeyedLeaves(document) ==
    UNION {LET el == document.elements[e]
           IN  IF el.type = "paragraph"
               THEN {[meta |-> DocxParaMeta(e - 1, r - 1), text |-> el.runs[r].text] :
                        r \in 1..Len(el.runs)}
               ELSE UNION {UNION {UNION {
                      {[meta |-> DocxTableMeta(e - 1, row - 1, col - 1, p - 1, r - 1),
                        text |-> el.rows[row][col].paragraphs[p].runs[r].text] :
                          r \in 1..Len(el.rows[row][col].paragraphs[p].runs)} :
                        p \in 1..Len(el.rows[row][col].paragraphs)} :
                      col \in 1..Len(el.rows[row])} :
                    row \in 1..Len(el.rows)} :
           e \in 1..Len(document.elements)}

RECURSIVE PptxKeyedLeaves(_, _, _)
PptxKeyedLeaves(sh, slide_idx, shape_path) ==
    LET path == Append(shape_path, sh.shape_index)
    IN  IF sh.type = "text"
        THEN UNION {{[meta |-> PptxRunMeta(slide_idx, path, p - 1, r - 1),
                      text |-> sh.paragraphs[p].runs[r].text] :
                        r \in 1..Len(sh.paragraphs[p].runs)} :
                    p \in 1..Len(sh.paragraphs)}
        ELSE IF sh.type = "table"
        THEN UNION {{[meta |-> PptxCellMeta(slide_idx, path, row - 1, col - 1),
                      text |-> sh.table_data.rows[row][col].text] :
                        col \in 1..Len(sh.table_data.rows[row])} :
                    row \in 1..Len(sh.table_data.rows)}
        ELSE IF sh.type = "group"
        THEN UNION {PptxKeyedLeaves(sh.shapes[k], slide_idx, path) :
                        k \in 1..Len(sh.shapes)}
        ELSE {}

KeyedLeaves(kind, d) ==
    IF kind = "docx" THEN DocxKeyedLeaves(d)
    ELSE UNION {UNION {PptxKeyedLeaves(d[s].shapes[k], d[s].slide_index, <<>>) :
                          k \in 1..Len(d[s].shapes)} :
                s \in 1..Len(d)}

\* The text the keyed leaf of this metadata holds in a tree.
HoldsAt(kind, d, meta, t) ==
    \A l \in KeyedLeaves(kind, d) : l.meta = meta => l.text = t

\* C18: after apply with the mapping built from the translated items, the
\* leaf of every collected item holds the translation of that item's own
\* text, a keyed leaf whose key has no entry holds the text it had, and so
\* no leaf holds the translation of another leaf.
C18_OwnTranslation ==
    (tpc = "applied" /\ items # <<>>) =>
        /\ {l.meta : l \in KeyedLeaves(docKind, outDoc)}
              = {l.meta : l \in KeyedLeaves(docKind, doc)}
        /\ \A i \in 1..Len(items) :
              /\ \E l \in KeyedLeaves(docKind, doc) :
                    l.meta = items[i].meta /\ Strip(l.text) = items[i].text
              /\ HoldsAt(docKind, outDoc, items[i].meta, Translate(items[i].text))
        /\ \A l \in KeyedLeaves(docKind, doc) :
              MakeKey(docKind, l.meta) \notin DOMAIN tmap =>
                  HoldsAt(docKind, outDoc, l.meta, l.text)

\* C18 witness: a tree with two collected leaves of different texts and a
\* whitespace-only run between them has been translated and applied.
C18_Witness ==
    /\ tpc = "applied"
    /\ \E i, j \in 1..Len(items) : items[i].text # items[j].text
    /\ \E l \in KeyedLeaves(docKind, doc) :
          /\ l.text # <<>>
          /\ MakeKey(docKind, l.meta) \notin DOMAIN tmap
          /\ HoldsAt(docKind, outDoc, l.meta, l.text)

-----------------------------------------------------------------------------
(* Properties of one request.                                              *)

\* The gather of the translation jobs has returned.
Returned ==
    rpc \in {"validating", "writing", "docvalidate", "docvalidating", "done"}

\* C1: once the dispatcher has returned there are exactly N results, and
\* the result at index i is the translation the primitive produced for the
\* unit at index i, whatever the order in which the jobs ended.
C1_IndexAligned ==
    Returned =>
        /\ Len(results) = N
        /\ \A i \in 1..N :
              (fate[i] = "ok" /\ retries[i] = 0) =>
                  results[i] = Translate(JobInput(i))

\* Two DOCX leaves whose jobs ended in the reverse order (the second leaf
\* reported its progress first), and the service has returned.
C1_Witness ==
    /\ Returned
    /\ workflow = "docx"
    /\ N = 2
    /\ \A i \in 1..N : fate[i] = "ok"
    /\ \E a, b \in 1..Len(log) :
          /\ a < b
          /\ log[a] = DocxProgress(1, 2)
          /\ log[b] = DocxProgress(0, 2)

\* C3: a failure of the primitive for one unit does not abort the request,
\* and once the dispatcher has returned the output of a unit whose call
\* failed is its source text while every other unit has its translation.
C3_FailureFallsBack ==
    /\ ~(rpc = "failed" /\ \E i \in 1..N : jpc[i] = "raised")
    /\ Returned =>
          \A i \in 1..N :
              retries[i] = 0 =>
                  results[i] = IF fate[i] = "ok" THEN Translate(JobInput(i))
                               ELSE units[i]

\* C4: the values passed to the progress callback never decrease, and the
\* last one of a finished request is 100.
C4_ProgressMonotone ==
    /\ \A k \in 1..(Len(log) - 1) : log[k] <= log[k + 1]
    /\ (rpc = "done" /\ log # <<>>) => log[Len(log)] = 100

\* C10: a sampled unit is re-translated exactly when its first report has a
\* score below 60 or recommends "retranslate", and then exactly once.  The
\* report held by a task is its first one until the retry has been
\* validated.
C10_RetryTrigger ==
    \A i \in 1..N :
        LET low == vReport[i].score < 60 \/ vReport[i].rec = "retranslate"
        IN  /\ retries[i] <= 1
            /\ vpc[i] \in {"off", "validate1"} => retries[i] = 0
            /\ vpc[i] = "retrywait" => low /\ retries[i] = 0
            /\ vpc[i] \in {"retrycall", "validate2"} => low /\ retries[i] = 1
            /\ (vpc[i] = "done" /\ retries[i] = 0) => ~low

\* One unit is being re-translated on a report of score 100 that recommends
\* "retranslate", another one was accepted with score 60.
C10_Witness ==
    \E i, j \in 1..N :
        /\ vpc[i] = "validate2"
        /\ retries[i] = 1
        /\ vReport[i] = Report(100, "retranslate")
        /\ vpc[j] = "done"
        /\ retries[j] = 0
        /\ vReport[j] = Report(60, "review")

\* The calls of the translation primitive the request has made so far: one
\* by each job that got through the gate, one by each retry.
RECURSIVE SumSeq(_)
SumSeq(q) == IF q = <<>> THEN 0 ELSE Head(q) + SumSeq(Tail(q))

PrimitiveCalls ==
    Cardinality({i \in 1..N : jpc[i] \notin {"new", "queued"}}) + SumSeq(retries)

\* The reports of the sampled units, in some order of the sample.
SampleReports == {[k \in 1..Len(q) |-> vReport[q[k]]] : q \in Orderings(sample)}

\* C12: a sampled unit is re-submitted to the primitive at most once; the
\* task ends when its retry has been validated, with no third attempt, and
\* the report of that second validation is the one recorded whatever its
\* score; a request of N units with S sampled calls the primitive at most
\* N + S times.
C12_SingleRetry ==
    /\ [](/\ \A i \in 1..N : retries[i] <= 1 /\ (retries[i] = 1 => i \in sample)
          /\ PrimitiveCalls <= N + Cardinality(sample)
          /\ (workflow = "standard" /\ validation /\ rpc \in {"writing", "done"})
                 => validationResults \in SampleReports)
    /\ [][\A i \in 1..N :
            (vpc[i] = "validate2" /\ vpc'[i] # "validate2") =>
                /\ vpc'[i] = "done"
                /\ retries'[i] = 1
                /\ \E out \in ValidatorOutcomes :
                      vReport'[i] = validate_translation(out)]_vars

\* A finished request whose two units were both sampled: one was
\* re-translated and its second report, again a low one, is recorded; the
\* primitive was called three times.
C12_Witness ==
    /\ rpc = "done"
    /\ N = 2
    /\ PrimitiveCalls = 3
    /\ \E i \in 1..N :
          /\ retries[i] = 1
          /\ vReport[i] = Report(59, "pass")
          /\ \E k \in 1..Len(validationResults) : validationResults[k] = vReport[i]

\* The validation primitive returns to one of its callers.
ValidatorStep ==
    \/ \E i \in 1..N, out \in ValidatorOutcomes : ValidatorReturns(i, out)
    \/ \E i \in 1..N, out \in ValidatorOutcomes : RetryValidated(i, out)
    \/ \E out \in ValidatorOutcomes : DocValidateChunk(out)

\* C13: with validation enabled the phases come in the order Loading,
\* Translating, Validating, Writing, Done in every workflow: the validation
\* primitive is never invoked once the output artifact has been written.
C13_ValidateBeforeWrite == [][ValidatorStep => output = <<>>]_vars

\* C14: a failure during the validation phase (validator error, malformed
\* report, failure of the retry, failure to re-load the documents) never
\* makes the request fail.
C14_ValidationNeverFails ==
    rpc = "failed" => \A i \in 1..N : vpc[i] # "raised"

C16_ProgressInRange == \A k \in 1..Len(log) : log[k] \in 0..100

\* The calls of the primitive in flight, each inside "async with
\* self.semaphore": the jobs in their call, the DOCX, PPTX and large-document
\* jobs in their progress callback, and the retries in their call.
HoldsPermit(i) ==
    \/ jpc[i] = "call"
    \/ jpc[i] = "callback" /\ workflow \in {"docx", "pptx", "large"}
    \/ vpc[i] = "retrycall"
PermitsHeld == Cardinality({i \in 1..N : HoldsPermit(i)})

\* C19: a permit is taken before each call of the primitive and given
\* back when the call ends, by return or by exception: the available
\* permits are within 0..limit, they are the limit less the calls in
\* flight, and they are the limit again once every job has ended.
C19_PermitsRestored ==
    /\ semValue \in 0..capacity
    /\ semValue = capacity - PermitsHeld
    /\ (\A i \in 1..N : jpc[i] \in {"done", "raised"} /\ vpc[i] # "retrycall")
          => semValue = capacity

\* C19 witness: a batch of two jobs has ended, one by an exception and one
\* by a return, and every permit is back.
C19_Witness ==
    /\ rpc = "failed"
    /\ N = 2
    /\ \E i, j \in 1..N : jpc[i] = "raised" /\ jpc[j] = "done"
    /\ \A i \in 1..N : jpc[i] \in {"done", "raised"}
    /\ semValue = capacity

\* The jobs of the request that have counted themselves.
Counted == {i \in 1..N : jpc[i] \in {"callback", "done"}}

\* C20: in the standard workflow the counter is incremented once per
\* finished job, whatever the order of the completions, and the jobs report
\* completed/total scaled into 0..90: there is one report per finished job,
\* the k-th reported value is that of k jobs out of N, the values never
\* decrease, and 90 is reported once, by the last of the N jobs.
C20_CounterProgress ==
    (workflow = "standard" /\ rpc = "translating") =>
        /\ Len(log) = Cardinality(Counted)
        /\ \A k \in 1..Len(log) :
              /\ log[k] = StandardProgress(k, N)
              /\ log[k] \in 0..90
              /\ k > 1 => log[k - 1] <= log[k]
              /\ log[k] = 90 <=> k = N

\* C21: a retry replaces the entry of the retried unit and no other: in
\* the standard workflow, from the validation phase on, the translated
\* sequence has N entries, an entry that is not the job's output belongs to
\* a sampled unit that was retried and is an output of the primitive for
\* that unit, and a step that changes entry j is the return of unit j's
\* retry and changes no other entry and not the length.
C21_RetryInPlace ==
    /\ [](( /\ workflow = "standard"
            /\ \/ rpc \in {"validating", "writing", "done"}
               \/ rpc = "failed" /\ results # <<>>) =>
           /\ Len(results) = N
           /\ \A j \in 1..N :
                 results[j] # taskResult[j] =>
                    /\ j \in sample
                    /\ retries[j] = 1
                    /\ \E f \in Fates \ {"raise"} :
                          results[j] = Response(f, units[j]))
    /\ [][(results # <<>> /\ results' # <<>>) =>
             /\ Len(results') = Len(results)
             /\ \A j \in 1..Len(results) :
                   results'[j] # results[j] =>
                      /\ vpc[j] = "retrycall"
                      /\ vpc'[j] = "validate2"
                      /\ \A k \in 1..Len(results) :
                            k # j => results'[k] = results[k]]_vars

\* C21 witness: two sampled units were both retried; the second one's
\* entry is the retry's output, the first one's entry stands.
C21_Witness ==
    /\ rpc = "done"
    /\ workflow = "standard"
    /\ N = 2
    /\ retries = <<1, 1>>
    /\ taskResult[2] = Translate(units[2])
    /\ results = <<Translate(units[1]), Refusal>>

\* The last chunk of the batch before the batch of chunk i (0 in the
\* first batch).
LastOfEarlierBatch(i) == ((i - 1) \div 3) * 3

\* C22: the large-document translator works in batches of 3 in index
\* order: a chunk is not started before every chunk of the earlier batches
\* is done; the text given for a chunk is the chunk alone or the chunk after
\* a hint made of the tail of the translation of the last chunk of the batch
\* before; a chunk with a hint is flagged as having overlap and is not in
\* the first batch.
C22_WindowedBatches ==
    workflow = "large" =>
        \A i \in 1..N :
            /\ jpc[i] # "new" =>
                  \A j \in 1..LastOfEarlierBatch(i) : jpc[j] = "done"
            /\ (fate[i] = "ok" /\ jpc[i] \in {"callback", "done"}) =>
                  \/ taskResult[i] = Translate(units[i])
                  \/ /\ i > 3
                     /\ overlap[i]
                     /\ taskResult[i] =
                          Translate(<<"[ctx:">>
                                    \o LastChars(taskResult[LastOfEarlierBatch(i)], 200)
                                    \o <<"]">> \o units[i])

\* C22 witness: four chunks are done; the fourth, flagged, was given the
\* translation of the third as its hint, after the first batch had ended.
C22_Witness ==
    /\ workflow = "large"
    /\ rpc = "done"
    /\ N = 4
    /\ overlap = <<FALSE, TRUE, FALSE, TRUE>>
    /\ taskResult[2] = Translate(units[2])
    /\ taskResult[4] = Translate(<<"[ctx:">> \o Translate(units[3]) \o <<"]">>
                                  \o units[4])

\* The report for an output that is not JSON.
InvalidJsonReport ==
    [score |-> 0, rec |-> "retranslate",
     issues |-> <<[severity |-> "critical", type |-> "validation_error"]>>]

HasCriticalIssue(report) ==
    \E k \in 1..Len(report.issues) : report.issues[k].severity = "critical"

\* C24: a call of the validator always returns a report: for an output
\* that cannot be parsed it is the report of score 0 with a critical issue
\* and the recommendation "retranslate"; a failure of any kind gives a
\* report of score 0 with a critical issue, and the task or the document
\* validation that called goes on.
C24_MalformedReport ==
    [][\A out \in ValidatorOutcomes :
         /\ \A i \in 1..N :
               (ValidatorReturns(i, out) \/ RetryValidated(i, out)) =>
                  /\ vpc'[i] \in {"retrywait", "done"}
                  /\ out.kind = "unparseable" => vReport'[i] = InvalidJsonReport
                  /\ out.kind # "parsed" =>
                        vReport'[i].score = 0 /\ HasCriticalIssue(vReport'[i])
                  /\ out.kind = "parsed" => vReport'[i] = out.report
         /\ DocValidateChunk(out) =>
               /\ Len(docReports') = Len(docReports) + 1
               /\ rpc' = "docvalidating"
               /\ out.kind = "unparseable" =>
                     docReports'[Len(docReports')] = InvalidJsonReport
               /\ out.kind # "parsed" =>
                     /\ docReports'[Len(docReports')].score = 0
                     /\ HasCriticalIssue(docReports'[Len(docReports')])]_vars

\* C24 witness: the validator's output for a sampled unit was not JSON; the
\* task holds the synthetic report and waits for its retry.
C24_Witness ==
    /\ rpc = "validating"
    /\ \E i \in 1..N : vpc[i] = "retrywait" /\ vReport[i] = InvalidJsonReport

-----------------------------------------------------------------------------
(* Properties of the admission gate.                                       *)

\* The calls of the translation primitive in flight: translation jobs and
\* retries between their entry into translate_text and its return.
InFlight == tjobs.admitted + tjobs.running + rjobs.admitted + rjobs.running

\* C2: for a limit of 1, 5 or 20 the number of calls of the primitive in
\* flight never exceeds the limit of the dispatcher, the retries of the
\* validation phase included.
C2_ConcurrencyBound == InFlight <= aLimit

\* With a limit of 1, one retry is in flight while another retry waits at
\* the gate.
C2_Witness ==
    /\ aLimit = 1
    /\ rjobs.admitted + rjobs.running = 1
    /\ rjobs.waiting > 0

-----------------------------------------------------------------------------
(* Properties of the validation sample.                                    *)

\* How many times index u was handed to the validator.
TimesValidated(u) ==
    Cardinality({k \in 1..Len(sValidated) : sValidated[k] = u})

\* C11: for N units and a requested sample size S, exactly min(S, N)
\* indices are validated, none twice and none outside 0..N-1; when N <= S
\* every unit is validated exactly once.
C11_SampleExact ==
    spc = "done" =>
        /\ Len(sValidated) = (IF sSize < sUnits THEN sSize ELSE sUnits)
        /\ \A k \in 1..Len(sValidated) : sValidated[k] \in 0..(sUnits - 1)
        /\ \A u \in 0..(sUnits - 1) : TimesValidated(u) <= 1
        /\ sUnits <= sSize => \A u \in 0..(sUnits - 1) : TimesValidated(u) = 1

\* Five of six units were validated, drawn by _translate_standard in an
\* order that is not the order of the units.
C11_Witness ==
    /\ spc = "done"
    /\ sampler = "standard"
    /\ sUnits = 6
    /\ Len(sValidated) = 5
    /\ sValidated[1] > sValidated[2]

-----------------------------------------------------------------------------
(* Properties of the choice of the workflow.                               *)

\* C23: the workflow depends on the type and the size of the input alone:
\* .docx and .pptx take their structure-preserving workflow, .pdf the page
\* workflow, and every other loadable input the large-document workflow
\* exactly when its text is longer than 40,000 characters and the standard
\* workflow otherwise, a text of exactly 40,000 characters included.
C23_WorkflowSelection ==
    fpc = "routed" =>
        LET type == IF filePath = ".DOCX" THEN ".docx" ELSE filePath
        IN  /\ type \in {".docx", ".pptx", ".pdf"} =>
                  chosen = (CASE type = ".docx" -> "docx"
                              [] type = ".pptx" -> "pptx"
                              [] type = ".pdf" -> "pdf")
            /\ type \in {".odt", ".txt", ".png"} =>
                  /\ chosen \in {"standard", "large"}
                  /\ chosen = "large" <=> fileLen > 40000
                  /\ fileLen = 40000 => chosen = "standard"
            /\ type \in {".docx", ".pptx", ".pdf", ".odt", ".txt", ".png"}

\* C23 witness: a text file of exactly 40,000 characters has been given to
\* the standard workflow.
C23_Witness ==
    /\ fpc = "routed"
    /\ filePath = ".txt"
    /\ fileLen = 40000
    /\ chosen = "standard"

-----------------------------------------------------------------------------
(* Properties of the validation summaries.                                 *)

ExactMean(summaryScore) ==
    Len(qScores) * summaryScore = 10 * TotalQuality(qScores)

NearestTenth(summaryScore) ==
    LET n == Len(qScores)
        d == n * summaryScore - 10 * TotalQuality(qScores)
    IN  /\ 2 * d <= n
        /\ -2 * d <= n
        /\ (2 * d = n \/ -2 * d = n) => summaryScore % 2 = 0

MeanRecommendation ==
    LET n == Len(qScores)
        total == TotalQuality(qScores)
    IN  IF total >= 75 * n THEN "pass"
        ELSE IF total >= 60 * n THEN "review"
        ELSE "retranslate"

BothSummaries ==
    /\ qScores # <<>>
    /\ orchSummary # NoSummary
    /\ docSummary # NoSummary

-----------------------------------------------------------------------------
(* Termination of the dispatch.                                            *)

AllJobsEnded ==
    /\ tjobs.waiting = 0
    /\ tjobs.admitted = 0
    /\ tjobs.running = 0
    /\ tjobs.lockwait = 0
    /\ tjobs.reporting = 0

\* C28: when every call of the primitive ends and every progress callback
\* returns, every dispatched job eventually ends and the dispatch is over
\* (gather has returned or raised), for 1 to MaxFairJobs jobs and a limit of
\* 1, 5 or 20: the semaphore of the dispatcher, the semaphore inside the
\* primitive and the progress lock never block each other for good.
C28_DispatchTerminates ==
    /\ <>[]AllJobsEnded
    /\ <>(apc # "translating")

\* C28 witness: with a limit of 20, jobs wait inside the dispatcher's
\* semaphore for the semaphore of the primitive, which is exhausted, while
\* one job reports under the progress lock and another waits for the lock.
C28_Witness ==
    /\ aLimit = 20
    /\ apc = "translating"
    /\ tjobs.waiting > 0
    /\ tjobs.admitted > 0
    /\ tjobs.running = GlobalLimit
    /\ tjobs.lockwait > 0
    /\ aLock

-----------------------------------------------------------------------------
(* Properties of the semaphore all dispatchers share.                      *)

RunnerCalls == dJobs["first"].running + dJobs["second"].running

\* C29: over all the dispatchers of the process together, at most 5 calls
\* of the model are running at any time, whatever the limits of the
\* dispatchers; a dispatcher with a limit of 20 never has more than 5.
C29_ProcessWideBound ==
    dJobs # <<>> =>
        /\ RunnerCalls <= 5
        /\ \A d \in Dispatchers : dLimit[d] = 20 => dJobs[d].running <= 5

\* C29 witness: both dispatchers have a limit of 20 and more than 5 jobs
\* inside their own semaphores together; 5 calls are running, some of each,
\* and the other jobs wait in translate_text.
C29_Witness ==
    /\ dJobs # <<>>
    /\ \A d \in Dispatchers :
          dLimit[d] = 20 /\ dJobs[d].running > 0 /\ dJobs[d].admitted > 0
    /\ RunnerCalls = 5
    /\ dJobs["first"].admitted + dJobs["first"].running = 6

-----------------------------------------------------------------------------
(* Properties of the large-document path.                                  *)

RecordedScores == [k \in 1..Len(validationResults) |-> validationResults[k].score]

RetryStep ==
    \/ \E i \in 1..N : RetryStart(i)
    \/ \E i \in 1..N, f \in Fates : RetryReturns(i, f)

\* C30: on the large-document path, with validation enabled or not, no
\* step is a call of the validator or a retry, the request leaves
\* Translating for Writing (or fails), never for Validating, and a summary
\* asked for afterwards reports zero validated chunks.
C30_LargeSkipsValidation ==
    /\ [](workflow = "large" /\ rpc # "off" =>
             /\ rpc \notin {"validating", "docvalidate", "docvalidating"}
             /\ sample = {}
             /\ validationResults = <<>>
             /\ \A i \in 1..Len(retries) : retries[i] = 0)
    /\ [][workflow = "large" => ~ValidatorStep /\ ~RetryStep]_vars
    /\ [][workflow = "large" /\ rpc = "translating" /\ rpc' # "translating"
             => rpc' \in {"writing", "failed"}]_vars
    /\ [](workflow = "large" /\ rpc = "done" =>
             get_validation_summary(RecordedScores).chunks_validated = 0)

\* C30 witness: a large document of four chunks was translated with
\* validation enabled; the request is done and its summary reports zero
\* validated chunks.
C30_Witness ==
    /\ workflow = "large"
    /\ validation
    /\ rpc = "done"
    /\ N = 4
    /\ output # <<>>
    /\ get_validation_summary(RecordedScores) =
           [chunks_validated |-> 0, message |-> "No validation performed"]

=============================================================================
